---- MODULE Spec2Model ----
(***************************************************************************)
(* Model of the mahalla administration application: the citizens registry, *)
(* the meetings with their attendance rows, and the rewards ledger          *)
(* (citizen_points) with the denormalised citizens.total_points.            *)
(*                                                                         *)
(* Encoding                                                                *)
(*  - a table with AUTOINCREMENT ids whose rows are never removed is a      *)
(*    sequence, the id of a row being its index (citizens, citizen_points); *)
(*  - meetings is a function from the ids of the stored rows; meeting_seq   *)
(*    is the AUTOINCREMENT counter of that table;                          *)
(*  - attendance is the set of its rows; UNIQUE(citizen_id, meeting_id)     *)
(*    identifies a row, the surrogate id column is not modelled;            *)
(*  - SQL NULL in an integer reference column is NULL (0, never a rowid);   *)
(*  - Python None is None (the empty tuple), a present value v is Some(v);  *)
(*  - dates are day numbers, today is the current date;                     *)
(*  - point values inside award_points are held in half units (x2), because *)
(*    POINTS_CONFIG holds the float 1.5 next to the integer values;         *)
(*  - text columns without a rule (names, addresses, notes, descriptions)   *)
(*    and the created_at/updated_at stamps are not modelled as values, only *)
(*    as column names of the statements that write them;                    *)
(*  - calls holds, for each session of the application, the handler it is   *)
(*    running and the statement it is at; the operations that model a       *)
(*    handler as one step leave it alone.                                   *)
(***************************************************************************)
EXTENDS Integers, Sequences, FiniteSets, TLC

VARIABLES citizens, citizen_points, meetings, meeting_seq, attendance, today, last,
          calls, users, activity_types, session_state, clock, sms_campaigns,
          sms_logs

vars == <<citizens, citizen_points, meetings, meeting_seq, attendance, today, last,
          calls, users, activity_types, session_state, clock, sms_campaigns,
          sms_logs>>

\* the accounts, the activity types, the browser session and the SMS tables
system == <<users, activity_types, session_state, clock, sms_campaigns, sms_logs>>

----------------------------------------------------------------------------
(* Bounds of the model *)

SeedCitizens == 3        \* how many of the seeded test citizens are modelled
MaxCitizens == 4         \* rows of citizens (seeded and added)
MaxLedger == 2           \* rows of citizen_points
MaxMeetings == 2         \* meetings ever created

----------------------------------------------------------------------------
(* Values *)

NULL == 0
None == <<>>
Some(v) == <<v>>

Max(a, b) == IF a >= b THEN a ELSE b
Min(a, b) == IF a <= b THEN a ELSE b

\* int(x) of Python for the quotient a / b with b > 0: truncation towards zero
TruncDiv(a, b) == IF a >= 0 THEN a \div b ELSE -((-a) \div b)

\* AppSettings.POINTS_CONFIG, every value in half units (10 is 20, 1.5 is 3)
POINTS_CONFIG ==
    [meeting_attendance |-> 20, subbotnik |-> 30, community_work |-> 20,
     volunteer_work |-> 24, regular_bonus_multiplier |-> 3]

\* self.points_config.get(key, default), default given in half units
ConfigGet(key, default2) ==
    IF key \in DOMAIN POINTS_CONFIG THEN POINTS_CONFIG[key] ELSE default2

\* the columns of the tables, as CREATE TABLE declares them
TableColumns ==
    [citizens |-> {"id", "full_name", "birth_date", "address", "phone",
                   "passport_data", "registration_date", "is_active",
                   "total_points", "notes", "created_at", "updated_at"},
     meetings |-> {"id", "title", "meeting_date", "meeting_time", "location",
                   "agenda", "status", "attendance_count", "total_invited",
                   "created_at", "updated_at", "created_by"},
     attendance |-> {"id", "citizen_id", "meeting_id", "is_present",
                     "points_earned", "arrival_time", "notes", "created_at"},
     citizen_points |-> {"id", "citizen_id", "activity_type", "points",
                         "description", "meeting_id", "date_earned",
                         "created_at", "created_by"},
     sms_campaigns |-> {"id", "title", "message_text", "campaign_type",
                        "sent_count", "delivered_count", "failed_count",
                        "scheduled_at", "sent_at", "created_at", "created_by"},
     sms_logs |-> {"id", "campaign_id", "citizen_id", "phone", "message_text",
                   "status", "error_message", "sent_at", "delivered_at",
                   "created_at"}]

\* BaseModel.create: the columns of the INSERT it builds from the data
CreateColumns(dataColumns) == dataColumns \cup {"created_at", "updated_at"}

\* BaseModel.update: the columns of the UPDATE it builds from the data
UpdateColumns(dataColumns) == dataColumns \cup {"updated_at"}

\* the statement prepares only if the table has every column it names
StatementPrepares(table, columns) == columns \subseteq TableColumns[table]

\* what the store does with a statement: it runs it, or the file is locked by
\* another connection, or the file cannot be opened
StoreOutcomes == {"ok", "locked", "unavailable"}

\* an execute_query that returns None on a locked store after its statement
\* has been applied
execute_query_applied(store, valid, old, new) ==
    IF store = "ok" /\ valid THEN [done |-> TRUE, tables |-> new]
    ELSE [done |-> FALSE, tables |-> IF store = "locked" /\ valid THEN new ELSE old]

\* DatabaseManager.execute_query of a writing statement: inside "with conn"
\* the statement is committed when it runs and rolled back when it raises;
\* the exception is caught and None returned. valid: the statement prepares
\* and breaks no constraint; old, new: the tables before and after it
execute_query(store, valid, old, new) ==
    IF store = "ok" /\ valid THEN [done |-> TRUE, tables |-> new]
    ELSE [done |-> FALSE, tables |-> old]

\* an execute_many that keeps the rows inserted before the one that fails
execute_many_row_by_row(store, prepares, accepted, old, new_rows) ==
    LET rejected == {i \in 1..Len(new_rows) : ~accepted[i]}
        first == IF rejected = {} THEN Len(new_rows) + 1
                 ELSE CHOOSE i \in rejected : \A j \in rejected : i <= j
    IN  IF store = "ok" /\ prepares
        THEN [done |-> rejected = {}, tables |-> old \o SubSeq(new_rows, 1, first - 1)]
        ELSE [done |-> FALSE, tables |-> old]

\* DatabaseManager.execute_many: executemany inside "with conn", committed
\* when every row went in and rolled back as a whole when one raises; the
\* exception is caught and False returned. accepted[i]: row i breaks no
\* constraint; old: the table before; new_rows: the rows of the batch
execute_many(store, prepares, accepted, old, new_rows) ==
    IF store = "ok" /\ prepares /\ \A i \in 1..Len(new_rows) : accepted[i]
    THEN [done |-> TRUE, tables |-> old \o new_rows]
    ELSE [done |-> FALSE, tables |-> old]

----------------------------------------------------------------------------
(* Queries *)

CitizenIds == 1..Len(citizens)
CitizenExists(c) == c \in CitizenIds
CitizenActive(c) == CitizenExists(c) /\ citizens[c].is_active = 1

RECURSIVE SumPointsUpTo(_, _, _)
SumPointsUpTo(rows, c, n) ==
    IF n = 0 THEN 0
    ELSE SumPointsUpTo(rows, c, n - 1)
         + (IF rows[n].citizen_id = c THEN rows[n].points ELSE 0)

\* SELECT COALESCE(SUM(points), 0) FROM citizen_points WHERE citizen_id = c
SumPoints(rows, c) == SumPointsUpTo(rows, c, Len(rows))

\* SELECT COUNT(cp.id) of the rows of citizen c
CountPoints(rows, c) == Cardinality({i \in 1..Len(rows) : rows[i].citizen_id = c})

----------------------------------------------------------------------------
(* PointsModel *)

RegularWindowDays == 90
RegularMinDays == 6

\* SELECT COUNT(DISTINCT date_earned) ... WHERE citizen_id = ? AND
\* activity_type = ? AND date_earned >= today - 90 days
ActiveDays(rows, c, a, day) ==
    {rows[i].date_earned :
        i \in {j \in 1..Len(rows) : /\ rows[j].citizen_id = c
                                    /\ rows[j].activity_type = a
                                    /\ rows[j].date_earned >= day - RegularWindowDays}}

\* the regularity test counting the days with a row of any activity type
check_regular_activity_any_type(rows, c, a, day) ==
    Cardinality({rows[i].date_earned :
                    i \in {j \in 1..Len(rows) :
                              /\ rows[j].citizen_id = c
                              /\ rows[j].date_earned >= day - RegularWindowDays}})
        >= RegularMinDays

\* PointsModel._check_regular_activity
check_regular_activity(rows, c, a, day) ==
    Cardinality(ActiveDays(rows, c, a, day)) >= RegularMinDays

\* the value award_points resolves before the bonus, in half units
ResolvePoints(activity_type, custom_points) ==
    IF custom_points # None THEN 2 * custom_points[1]
    ELSE ConfigGet(activity_type, 10)

\* points = int(points * multiplier), in half units
ApplyBonus(points2) ==
    2 * TruncDiv(points2 * ConfigGet("regular_bonus_multiplier", 2), 4)

\* PointsModel.validate_data: the fields that get an error.  The first
\* disjunct of each field is the required-field test of BaseModel
\* (not data[field]); isinstance(points, int) is an even half-unit value.
validate_data(cits, data) ==
    LET cid == data.citizen_id
        p2 == data.points2
        bad_citizen == \/ cid = 0
                       \/ cid <= 0
                       \/ ~(cid \in 1..Len(cits) /\ cits[cid].is_active = 1)
        bad_activity == \/ data.activity_type = ""
                        \/ data.activity_type \notin DOMAIN POINTS_CONFIG
        bad_points == \/ p2 = 0
                      \/ p2 % 2 # 0
                      \/ (p2 % 2 = 0 /\ (p2 \div 2 < -1000 \/ p2 \div 2 > 1000))
    IN  (IF bad_citizen THEN {"citizen_id"} ELSE {})
        \cup (IF bad_activity THEN {"activity_type"} ELSE {})
        \cup (IF bad_points THEN {"points"} ELSE {})

\* the keys of the data award_points hands to create
PointsDataColumns ==
    {"citizen_id", "activity_type", "points", "description", "meeting_id",
     "date_earned", "created_by"}

\* the INSERT of a create that names only the columns of citizen_points
create_points_known_columns(cits, meets, data) ==
    /\ data.citizen_id \in 1..Len(cits)
    /\ (data.meeting_id = NULL \/ data.meeting_id \in DOMAIN meets)

\* BaseModel.create on citizen_points: the INSERT succeeds when it prepares
\* and the foreign keys of the row hold (PRAGMA foreign_keys = ON)
create_points(cits, meets, data) ==
    /\ StatementPrepares("citizen_points", CreateColumns(PointsDataColumns))
    /\ data.citizen_id \in 1..Len(cits)
    /\ (data.meeting_id = NULL \/ data.meeting_id \in DOMAIN meets)

\* PointsModel._update_citizen_total_points
update_citizen_total_points(cits, rows, c) ==
    IF c \in 1..Len(cits)
    THEN [cits EXCEPT ![c].total_points = SumPoints(rows, c)]
    ELSE cits

\* award_points that does not return on validation errors and writes the row
\* with its own INSERT, as the award forms of the points page do
award_points_unvalidated(cits, rows, meets, day, citizen_id, activity_type, meeting_id, custom_points) ==
    LET base2 == ResolvePoints(activity_type, custom_points)
        points2 == IF check_regular_activity(rows, citizen_id, activity_type, day)
                   THEN ApplyBonus(base2) ELSE base2
        data == [citizen_id |-> citizen_id, activity_type |-> activity_type,
                 points2 |-> points2, meeting_id |-> meeting_id,
                 date_earned |-> day]
        errors == validate_data(cits, data)
        inserted == citizen_id \in 1..Len(cits)
        newRows == IF inserted
                   THEN Append(rows, [citizen_id |-> citizen_id,
                                      activity_type |-> activity_type,
                                      points |-> TruncDiv(points2, 2),
                                      meeting_id |-> meeting_id,
                                      date_earned |-> day])
                   ELSE rows
        newCits == IF inserted
                   THEN update_citizen_total_points(cits, newRows, citizen_id)
                   ELSE cits
    IN  [ret |-> IF inserted THEN Some(Len(newRows)) ELSE None,
         points2 |-> points2, errors |-> errors,
         citizen_points |-> newRows, citizens |-> newCits]

\* PointsModel.award_points: the returned id, the value and the errors it
\* computed, and the tables after the call
award_points(cits, rows, meets, day, citizen_id, activity_type, meeting_id, custom_points) ==
    LET base2 == ResolvePoints(activity_type, custom_points)
        points2 == IF check_regular_activity(rows, citizen_id, activity_type, day)
                   THEN ApplyBonus(base2) ELSE base2
        data == [citizen_id |-> citizen_id, activity_type |-> activity_type,
                 points2 |-> points2, meeting_id |-> meeting_id,
                 date_earned |-> day]
        errors == validate_data(cits, data)
        inserted == errors = {} /\ create_points(cits, meets, data)
        newRows == IF inserted
                   THEN Append(rows, [citizen_id |-> citizen_id,
                                      activity_type |-> activity_type,
                                      points |-> points2 \div 2,
                                      meeting_id |-> meeting_id,
                                      date_earned |-> day])
                   ELSE rows
        newCits == IF inserted
                   THEN update_citizen_total_points(cits, newRows, citizen_id)
                   ELSE cits
    IN  [ret |-> IF inserted THEN Some(Len(newRows)) ELSE None,
         points2 |-> points2, errors |-> errors,
         citizen_points |-> newRows, citizens |-> newCits]

\* PointsModel.deduct_points
deduct_points(cits, rows, meets, day, citizen_id, points) ==
    award_points(cits, rows, meets, day, citizen_id, "penalty", NULL,
                 Some(-(IF points >= 0 THEN points ELSE -points)))

\* the loop of award_meeting_attendance_points over the items i.. of
\* attendance_data, a sequence of <<citizen_id, is_present>> in the order of
\* the dict; acc holds the count, the citizens an award was attempted for
\* and the tables so far
RECURSIVE AwardEachPresent(_, _, _, _, _, _)
AwardEachPresent(meets, day, meeting_id, attendance_data, i, acc) ==
    IF i > Len(attendance_data) THEN acc
    ELSE IF ~attendance_data[i][2]
    THEN AwardEachPresent(meets, day, meeting_id, attendance_data, i + 1, acc)
    ELSE LET r == award_points(acc.citizens, acc.citizen_points, meets, day,
                               attendance_data[i][1], "meeting_attendance",
                               meeting_id, None)
         IN  AwardEachPresent(meets, day, meeting_id, attendance_data, i + 1,
                 [count |-> IF r.ret # None THEN acc.count + 1 ELSE acc.count,
                  attempted |-> Append(acc.attempted, attendance_data[i][1]),
                  citizen_points |-> r.citizen_points,
                  citizens |-> r.citizens])

\* the bulk award that gives up at the first award that fails
award_meeting_attendance_points_until_failure(cits, rows, meets, day, meeting_id, attendance_data) ==
    LET first == {i \in 1..Len(attendance_data) : attendance_data[i][2]}
        upto == IF first = {} THEN 0 ELSE CHOOSE i \in first : \A j \in first : i <= j
    IN  AwardEachPresent(meets, day, meeting_id, SubSeq(attendance_data, 1, upto), 1,
                         [count |-> 0, attempted |-> <<>>,
                          citizen_points |-> rows, citizens |-> cits])

\* PointsModel.award_meeting_attendance_points
award_meeting_attendance_points(cits, rows, meets, day, meeting_id, attendance_data) ==
    AwardEachPresent(meets, day, meeting_id, attendance_data, 1,
                     [count |-> 0, attempted |-> <<>>,
                      citizen_points |-> rows, citizens |-> cits])

\* the citizens of the set ids in ascending order
RECURSIVE AscendingIds(_)
AscendingIds(ids) ==
    IF ids = {} THEN <<>>
    ELSE LET least == CHOOSE i \in ids : \A j \in ids : i <= j
         IN  <<least>> \o AscendingIds(ids \ {least})

\* the entries of the attendance list of meeting m an award path takes. The
\* list of get_meeting_with_attendance has an entry for every active
\* citizen (LEFT JOIN attendance), in the order of the names, for which the
\* order of the ids stands; an entry is taken when its points_earned is not
\* set (0, or NULL without a row) and, unless everyone is wanted, when it is
\* present
AwardEntries(cits, att, m, present_only) ==
    AscendingIds({c \in {i \in 1..Len(cits) : cits[i].is_active = 1} :
        /\ \A x \in att : (x.meeting_id = m /\ x.citizen_id = c) => x.points_earned = 0
        /\ present_only => \E x \in att : /\ x.meeting_id = m /\ x.citizen_id = c
                                          /\ x.is_present = 1})

\* award_points_to_present and the dict show_meeting_award_form builds: an
\* award for every entry taken
award_entries(cits, rows, meets, att, day, m, present_only) ==
    LET entries == AwardEntries(cits, att, m, present_only)
    IN  AwardEachPresent(meets, day, m,
                         [i \in 1..Len(entries) |-> <<entries[i], TRUE>>], 1,
                         [count |-> 0, attempted |-> <<>>,
                          citizen_points |-> rows, citizens |-> cits])

\* the rows _insert_initial_data puts into activity_types: name and points_value
SeededActivityTypes ==
    [meeting_attendance |-> 10, subbotnik |-> 15, community_work |-> 10,
     volunteer_work |-> 12, initiative |-> 20]

\* the activity types and default values the award forms of the points page offer
PageActivityTypes ==
    [meeting_attendance |-> 10, subbotnik |-> 15, community_work |-> 10,
     volunteer_work |-> 12, initiative |-> 8]

----------------------------------------------------------------------------
(* CitizenModel *)

\* the passport values entered in the forms; the first SeedCitizens of the
\* seeded test citizens carry SeedPassport
PassportInputs == {"", "AB1234567", "ab1234567", "AB1234568", "AB12345"}

SeedPassport == <<"AB1234567", "AB1234568", "AB1234569", "AB1234570",
                  "AB1234571", "AB1234572", "AB1234573", "AB1234574">>

\* passport_data.strip().upper()
PassportUpper(p) ==
    CASE p = "ab1234567" -> "AB1234567"
      [] OTHER -> p

\* CitizenModel._validate_passport: ^[A-Z]{2}[0-9]{7}$ on passport.upper()
ValidPassport(p) == PassportUpper(p) \in {"AB1234567", "AB1234568"}

\* the names entered in the forms and the length of name.strip()
NameInputs == {"", "A", "Aliev Vali"}
StrippedLen(name) ==
    CASE name = "" -> 0
      [] name = "A" -> 1
      [] OTHER -> 10

\* CitizenModel.validate_data on a mapping of the fields full_name and
\* passport_data: the fields that get an error
validate_citizen(data) ==
    LET bad_name == \/ "full_name" \notin DOMAIN data
                    \/ data["full_name"] = ""
                    \/ StrippedLen(data["full_name"]) < 2
                    \/ StrippedLen(data["full_name"]) > 255
        bad_passport == /\ "passport_data" \in DOMAIN data
                        /\ data["passport_data"] # ""
                        /\ ~ValidPassport(data["passport_data"])
    IN  (IF bad_name THEN {"full_name"} ELSE {})
        \cup (IF bad_passport THEN {"passport_data"} ELSE {})

\* self.exists("passport_data = ? AND is_active = 1", (passport,))
PassportInUse(cits, passport) ==
    \E i \in 1..Len(cits) : cits[i].passport_data = passport /\ cits[i].is_active = 1

\* CitizenModel.add_citizen: the new table, or the old one when it returns None
add_citizen(cits, full_name, passport_data) ==
    LET data == [k \in {"full_name", "passport_data"} |->
                    IF k = "full_name" THEN full_name ELSE PassportUpper(passport_data)]
        ok == /\ validate_citizen(data) = {}
              /\ ~(passport_data # "" /\ PassportInUse(cits, data["passport_data"]))
              /\ StatementPrepares("citizens",
                    CreateColumns({"full_name", "birth_date", "address", "phone",
                                   "passport_data", "notes", "total_points", "is_active"}))
    IN  IF ok
        THEN Append(cits, [is_active |-> 1, total_points |-> 0,
                           passport_data |-> data["passport_data"]])
        ELSE cits

\* CitizenModel.update_citizen with the keyword arguments kwargs
update_citizen(cits, c, kwargs) ==
    LET update_data == [k \in DOMAIN kwargs |->
                          IF k = "passport_data" /\ kwargs[k] # ""
                          THEN PassportUpper(kwargs[k]) ELSE kwargs[k]]
        ok == /\ validate_citizen(update_data) = {}
              /\ StatementPrepares("citizens", UpdateColumns(DOMAIN update_data))
    IN  [ret |-> ok,
         citizens |-> IF ok /\ c \in 1..Len(cits)
                            /\ "passport_data" \in DOMAIN update_data
                      THEN [cits EXCEPT ![c].passport_data = update_data["passport_data"]]
                      ELSE cits]

\* BaseModel.update(record_id, {'is_active': v}) on citizens
set_citizen_active(cits, c, v) ==
    IF StatementPrepares("citizens", UpdateColumns({"is_active"})) /\ c \in 1..Len(cits)
    THEN [cits EXCEPT ![c].is_active = v]
    ELSE cits

\* a deactivation that also clears the total of the citizen
deactivate_citizen_cleared(cits, c) ==
    IF c \in 1..Len(cits)
    THEN [cits EXCEPT ![c].is_active = 0, ![c].total_points = 0]
    ELSE cits

\* CitizenModel.deactivate_citizen (soft_delete); the note it appends is text
deactivate_citizen(cits, c) == set_citizen_active(cits, c, 0)

\* CitizenModel.activate_citizen
activate_citizen(cits, c) == set_citizen_active(cits, c, 1)

\* CitizenModel.get_active_citizens: the ids of the rows with is_active = 1
get_active_citizens(cits) == {i \in 1..Len(cits) : cits[i].is_active = 1}

----------------------------------------------------------------------------
(* validate_data of the models on the classes of values a field can take *)

\* a text field of the input mapping: the key is missing, or its value is
\* None, "", blanks only, too short, of a valid length or too long
TextValues == {"missing", "None", "empty", "blank", "short", "valid", "long"}

\* BaseModel.validate_data: field not in data or not data[field]
RequiredFieldError(v) == v \in {"missing", "None", "empty"}

\* data[field].strip() on a key that is present: None has no strip
StripRaises(v) == v = "None"

\* the length test on the stripped text of a key that is present
LengthError(v) == v \in {"empty", "blank", "short", "long"}

\* an optional field tested as "field in data and data[field]" before its
\* format: only a truthy value is looked at
FormatError(v) == v = "invalid"

\* validate_data over the required text fields text and the optional fields
\* optional of the mapping data: whether it raised, else the fields in error
validate_fields(data, text, optional) ==
    LET raised == \E f \in text : StripRaises(data[f])
        errors == {f \in text : RequiredFieldError(data[f]) \/ LengthError(data[f])}
                  \cup {f \in optional : FormatError(data[f])}
    IN  [raised |-> raised, errors |-> IF raised THEN {} ELSE errors]

\* CitizenModel.validate_data on full_name and passport_data
validate_citizen_fields(data) ==
    validate_fields(data, {"full_name"}, {"passport_data"})

\* MeetingModel.validate_data on title and meeting_date; meeting_date is
\* required and its format is tested when it is truthy
validate_meeting_fields(data) ==
    LET r == validate_fields(data, {"title"}, {"meeting_date"})
    IN  [raised |-> r.raised,
         errors |-> IF r.raised THEN {}
                    ELSE r.errors \cup (IF RequiredFieldError(data["meeting_date"])
                                        THEN {"meeting_date"} ELSE {})]

\* SMSModel.validate_data on title and message_text
validate_sms_fields(data) ==
    validate_fields(data, {"title", "message_text"}, {})

----------------------------------------------------------------------------
(* MeetingModel and the attendance handlers of the meetings page *)

MeetingRows(att, m) == {r \in att : r.meeting_id = m}

\* the counter update that takes every attendance row for a present citizen
update_attendance_count_all_present(meets, att, m) ==
    LET total_invited == Cardinality(MeetingRows(att, m))
    IN  IF m \in DOMAIN meets
        THEN [meets EXCEPT ![m].total_invited = total_invited,
                           ![m].attendance_count = total_invited]
        ELSE meets

\* MeetingModel.update_attendance_count
update_attendance_count(meets, att, m) ==
    LET total_invited == Cardinality(MeetingRows(att, m))
        attendance_count == Cardinality({r \in MeetingRows(att, m) : r.is_present = 1})
    IN  IF /\ StatementPrepares("meetings", UpdateColumns({"total_invited", "attendance_count"}))
           /\ m \in DOMAIN meets
        THEN [meets EXCEPT ![m].total_invited = total_invited,
                           ![m].attendance_count = attendance_count]
        ELSE meets

\* INSERT OR REPLACE INTO attendance (citizen_id, meeting_id, is_present):
\* succeeds when both foreign keys hold; the row of the same pair is replaced
\* and the columns the statement does not name take their defaults
upsert_ok(cits, meets, c, m) == c \in 1..Len(cits) /\ m \in DOMAIN meets

\* a plain INSERT into a table without the UNIQUE(citizen_id, meeting_id)
insert_attendance(cits, meets, att, c, m, present) ==
    IF upsert_ok(cits, meets, c, m)
    THEN att \cup {[citizen_id |-> c, meeting_id |-> m, is_present |-> present,
                    points_earned |-> 0]}
    ELSE att

upsert_attendance(cits, meets, att, c, m, present) ==
    IF upsert_ok(cits, meets, c, m)
    THEN {r \in att : ~(r.citizen_id = c /\ r.meeting_id = m)}
         \cup {[citizen_id |-> c, meeting_id |-> m, is_present |-> present,
                points_earned |-> 0]}
    ELSE att

\* toggle_attendance: the attendance rows and the meetings after the call
toggle_attendance(cits, meets, att, m, c, is_present) ==
    LET att2 == upsert_attendance(cits, meets, att, c, m, IF is_present THEN 1 ELSE 0)
    IN  [attendance |-> att2,
         meetings |-> IF upsert_ok(cits, meets, c, m)
                      THEN update_attendance_count(meets, att2, m)
                      ELSE meets]

RECURSIVE upsert_all(_, _, _, _, _, _)
upsert_all(cits, meets, att, todo, m, present) ==
    IF todo = {} THEN att
    ELSE LET c == CHOOSE x \in todo : TRUE
         IN  upsert_all(cits, meets,
                        upsert_attendance(cits, meets, att, c, m, present),
                        todo \ {c}, m, present)

\* mark_all_present / mark_all_absent over the citizens of attendance_list
mark_all(cits, meets, att, m, attendance_list, present) ==
    LET att2 == upsert_all(cits, meets, att, attendance_list, m, present)
    IN  [attendance |-> att2,
         meetings |-> update_attendance_count(meets, att2, m)]

\* MeetingModel.change_status
ValidStatuses == {"PLANNED", "COMPLETED", "CANCELLED"}

change_status(meets, m, new_status) ==
    IF /\ new_status \in ValidStatuses
       /\ StatementPrepares("meetings", UpdateColumns({"status"}))
       /\ m \in DOMAIN meets
    THEN [meets EXCEPT ![m].status = new_status]
    ELSE meets

\* MeetingModel.complete_meeting
complete_meeting(meets, att, m) ==
    change_status(update_attendance_count(meets, att, m), m, "COMPLETED")

\* MeetingModel.cancel_meeting
cancel_meeting(meets, m) == change_status(meets, m, "CANCELLED")

\* BaseModel.delete on meetings, with the actions of the foreign keys:
\* attendance ON DELETE CASCADE, citizen_points.meeting_id ON DELETE SET NULL
delete_meeting_rows(meets, m) == [x \in DOMAIN meets \ {m} |-> meets[x]]

delete_meeting_attendance(att, m) == {r \in att : r.meeting_id # m}

delete_meeting_points(rows, m) ==
    [i \in 1..Len(rows) |->
        IF rows[i].meeting_id = m THEN [rows[i] EXCEPT !.meeting_id = NULL]
        ELSE rows[i]]

----------------------------------------------------------------------------
(* PointsModel.get_leaderboard without a period *)

LeaderboardIds(cits) ==
    {c \in 1..Len(cits) : cits[c].is_active = 1 /\ cits[c].total_points > 0}

\* ORDER BY c.total_points, activities_count: ascending
LeaderboardBeforeAscending(cits, rows, a, b) ==
    \/ cits[a].total_points < cits[b].total_points
    \/ /\ cits[a].total_points = cits[b].total_points
       /\ CountPoints(rows, a) <= CountPoints(rows, b)

\* ORDER BY c.total_points DESC, activities_count DESC
LeaderboardBefore(cits, rows, a, b) ==
    \/ cits[a].total_points > cits[b].total_points
    \/ /\ cits[a].total_points = cits[b].total_points
       /\ CountPoints(rows, a) >= CountPoints(rows, b)

\* the orders the query may return the qualifying citizens in: rows that
\* agree on both sort keys come in either order
LeaderboardOrders(cits, rows) ==
    LET ids == LeaderboardIds(cits)
        n == Cardinality(ids)
    IN  {f \in [1..n -> ids] :
            /\ \A i, j \in 1..n : i # j => f[i] # f[j]
            /\ \A i, j \in 1..n : i < j => LeaderboardBefore(cits, rows, f[i], f[j])}

\* LIMIT ?: a negative limit is no limit
Limit(seq, limit) ==
    IF limit < 0 THEN seq ELSE SubSeq(seq, 1, Min(limit, Len(seq)))

\* the possible results of get_leaderboard(limit)
get_leaderboard(cits, rows, limit) ==
    {[i \in 1..Len(Limit(f, limit)) |->
        [id |-> f[i], total_points |-> cits[f[i]].total_points,
         activities_count |-> CountPoints(rows, f[i])]] :
     f \in LeaderboardOrders(cits, rows)}

\* the rank that counts the deactivated citizens too
get_citizen_rank_all_rows(cits, c) ==
    IF c \in 1..Len(cits) /\ cits[c].is_active = 1
    THEN 1 + Cardinality({d \in 1..Len(cits) :
                             cits[d].total_points > cits[c].total_points})
    ELSE 1

\* PointsModel.get_citizen_rank: COUNT(*) + 1 over the active citizens whose
\* total is greater than that of the active citizen c; for any other c the
\* subquery is NULL, no row compares greater and the count is 0
get_citizen_rank(cits, c) ==
    IF c \in 1..Len(cits) /\ cits[c].is_active = 1
    THEN 1 + Cardinality({d \in 1..Len(cits) :
                             /\ cits[d].is_active = 1
                             /\ cits[d].total_points > cits[c].total_points})
    ELSE 1

\* the CASE of get_points_distribution: the label of the range of a total
PointsRange(total_points) ==
    IF total_points = 0 THEN "0"
    ELSE IF total_points >= 1 /\ total_points <= 50 THEN "1-50"
    ELSE IF total_points >= 51 /\ total_points <= 100 THEN "51-100"
    ELSE IF total_points >= 101 /\ total_points <= 200 THEN "101-200"
    ELSE IF total_points >= 201 /\ total_points <= 500 THEN "201-500"
    ELSE "500+"

\* PointsModel.get_points_distribution: the count of the active citizens of
\* every range that has one (GROUP BY points_range)
get_points_distribution(cits) ==
    LET active == {c \in 1..Len(cits) : cits[c].is_active = 1}
        ranges == {PointsRange(cits[c].total_points) : c \in active}
    IN  [r \in ranges |->
            Cardinality({c \in active : PointsRange(cits[c].total_points) = r})]

----------------------------------------------------------------------------
(* BaseModel.get_paginated on the citizens table, ORDER BY id *)

\* the ids of the rows the where clause selects, in id order
RECURSIVE SelectIds(_, _, _)
SelectIds(cits, where, n) ==
    IF n = 0 THEN <<>>
    ELSE LET rest == SelectIds(cits, where, n - 1)
         IN  IF where = "" \/ (where = "is_active = 1" /\ cits[n].is_active = 1)
             THEN Append(rest, n) ELSE rest

\* LIMIT page_size OFFSET offset: a negative offset is no offset
LimitOffset(seq, limit, offset) ==
    LET from == Max(offset, 0) + 1
        upto == IF limit < 0 THEN Len(seq) ELSE Min(Len(seq), from + limit - 1)
    IN  SubSeq(seq, from, upto)

\* the pagination that takes page for a 0-based page number
get_paginated_zero_based(cits, page, page_size, where) ==
    LET matching == SelectIds(cits, where, Len(cits))
        total_count == Len(matching)
        records == LimitOffset(matching, page_size, page * page_size)
        total_pages == (total_count + page_size - 1) \div page_size
    IN  [data |-> records,
         pagination |-> [page |-> page, page_size |-> page_size,
                         total_count |-> total_count, total_pages |-> total_pages,
                         has_next |-> page < total_pages, has_prev |-> page > 1]]

\* BaseModel.get_paginated on citizens with order_by = "id"
get_paginated(cits, page, page_size, where) ==
    LET matching == SelectIds(cits, where, Len(cits))
        total_count == Len(matching)
        offset == (page - 1) * page_size
        records == LimitOffset(matching, page_size, offset)
        total_pages == (total_count + page_size - 1) \div page_size
    IN  [data |-> records,
         pagination |-> [page |-> page, page_size |-> page_size,
                         total_count |-> total_count, total_pages |-> total_pages,
                         has_next |-> page < total_pages, has_prev |-> page > 1]]

----------------------------------------------------------------------------
(* State *)

NoPage == [data |-> <<>>,
           pagination |-> [page |-> 0, page_size |-> 0, total_count |-> 0,
                           total_pages |-> 0, has_next |-> FALSE, has_prev |-> FALSE]]

\* PointsModel.get_citizen_achievements: whether it raised, else the names
\* of the achievements. Over no row SUM(points) is NULL, which the
\* dictionary holds as None, and None >= 100 raises TypeError. The names
\* are written in Latin letters
get_citizen_achievements(rows, c) ==
    LET total_activities == CountPoints(rows, c)
        total_points == SumPoints(rows, c)
        raised == total_activities = 0
    IN  [raised |-> raised,
         achievements |->
            IF raised THEN {}
            ELSE (IF total_points >= 100 THEN {"Aktivist"} ELSE {})
                 \cup (IF total_points >= 500 THEN {"Lider mahalli"} ELSE {})
                 \cup (IF total_activities >= 20 THEN {"Postoyannyy uchastnik"} ELSE {})]

\* the record of the last call: its name, its arguments and what it returned
NoCall == [op |-> "none", citizen_id |-> 0, meeting_id |-> 0, activity_type |-> "",
           flag |-> FALSE, custom |-> None, limit |-> 0, history |-> 0,
           points2 |-> 0, errors |-> {}, ret |-> None, ok |-> FALSE,
           board |-> <<>>, page |-> NoPage, data |-> <<>>, attempted |-> <<>>,
           dist |-> <<>>, raised |-> FALSE, failed |-> FALSE, achievements |-> {},
           params |-> <<>>]

\* the sessions of the application: each runs one handler at a time
Sessions == {1, 2}

\* a session that runs no handler
Idle == [pc |-> "idle", op |-> "none", citizen_id |-> 0, meeting_id |-> 0,
         activity_type |-> "", points2 |-> 0, flag |-> FALSE, valid |-> FALSE,
         failed |-> FALSE, total |-> 0, count |-> 0, ret |-> None,
         overlapped |-> FALSE]

NoCalls == [p \in Sessions |-> Idle]

\* the password hash: SHA-256 of the password, equal exactly for equal passwords
hash_password(password) == <<"sha256", password>>

DEFAULT_ADMIN_LOGIN == "admin"
DEFAULT_ADMIN_PASSWORD == "mahalla2024"

\* the default administrator account that _insert_initial_data creates
DefaultAdmin == [username |-> DEFAULT_ADMIN_LOGIN,
                 password_hash |-> hash_password(DEFAULT_ADMIN_PASSWORD),
                 role |-> "admin", is_active |-> 1]

SeededUsers == <<DefaultAdmin>>

\* the five rows of activity_types that _insert_initial_data creates, in order
SeededActivityNames == <<"meeting_attendance", "subbotnik", "community_work",
                         "volunteer_work", "initiative">>

SeededActivityRows ==
    [i \in 1..Len(SeededActivityNames) |->
        [name |-> SeededActivityNames[i],
         points_value |-> SeededActivityTypes[SeededActivityNames[i]]]]

\* init_session_state: nobody is logged in; screen is what the last run of
\* main rendered
NoSession == [authenticated |-> FALSE, user |-> None, login_time |-> None,
              screen |-> "none"]

\* DatabaseManager.init_database on an empty store: the seeded test citizens,
\* no meeting, no attendance row, no ledger row
Init ==
    /\ citizens = [i \in 1..SeedCitizens |->
                     [is_active |-> 1, total_points |-> 0,
                      passport_data |-> SeedPassport[i]]]
    /\ citizen_points = <<>>
    /\ meetings = <<>>
    /\ meeting_seq = 0
    /\ attendance = {}
    /\ today = 0
    /\ last = NoCall
    /\ calls = NoCalls
    /\ users = SeededUsers
    /\ activity_types = SeededActivityRows
    /\ session_state = NoSession
    /\ clock = 0
    /\ sms_campaigns = <<>>
    /\ sms_logs = <<>>

----------------------------------------------------------------------------
(* Operations *)

\* the calendar moves on by days days
Tick(days) ==
    /\ today' = today + days
    /\ last' = [NoCall EXCEPT !.op = "tick"]
    /\ UNCHANGED <<system, citizens, citizen_points, meetings, meeting_seq, attendance, calls>>

\* points_model.award_points(citizen_id, activity_type, meeting_id, custom_points)
AwardPoints(c, a, m, custom) ==
    LET r == award_points(citizens, citizen_points, meetings, today, c, a, m, custom)
    IN  /\ citizens' = r.citizens
        /\ citizen_points' = r.citizen_points
        /\ last' = [NoCall EXCEPT !.op = "award_points", !.citizen_id = c,
                                  !.activity_type = a, !.meeting_id = m,
                                  !.custom = custom,
                                  !.history = CountPoints(citizen_points, c),
                                  !.flag = check_regular_activity(citizen_points, c, a, today),
                                  !.points2 = r.points2, !.errors = r.errors,
                                  !.ret = r.ret]
        /\ UNCHANGED <<system, meetings, meeting_seq, attendance, today, calls>>

\* points_model.deduct_points(citizen_id, points, reason)
DeductPoints(c, amount) ==
    LET r == deduct_points(citizens, citizen_points, meetings, today, c, amount)
    IN  /\ citizens' = r.citizens
        /\ citizen_points' = r.citizen_points
        /\ last' = [NoCall EXCEPT !.op = "deduct_points", !.citizen_id = c,
                                  !.activity_type = "penalty",
                                  !.custom = Some(amount),
                                  !.history = CountPoints(citizen_points, c),
                                  !.points2 = r.points2, !.errors = r.errors,
                                  !.ret = r.ret]
        /\ UNCHANGED <<system, meetings, meeting_seq, attendance, today, calls>>

\* the submit handler of show_single_citizen_award_form: it inserts the
\* ledger row itself (no meeting_id) and recomputes the total in one UPDATE
PageAward(c, a, custom) ==
    LET points == IF custom # None THEN custom[1] ELSE PageActivityTypes[a]
        newRows == Append(citizen_points,
                          [citizen_id |-> c, activity_type |-> a, points |-> points,
                           meeting_id |-> NULL, date_earned |-> today])
    IN  /\ c \in get_active_citizens(citizens)
        /\ a \in DOMAIN PageActivityTypes
        /\ points >= -1000 /\ points <= 1000
        /\ citizen_points' = newRows
        /\ citizens' = [citizens EXCEPT ![c].total_points = SumPoints(newRows, c)]
        /\ last' = [NoCall EXCEPT !.op = "page_award", !.citizen_id = c,
                                  !.activity_type = a, !.custom = custom,
                                  !.ret = Some(Len(newRows))]
        /\ UNCHANGED <<system, meetings, meeting_seq, attendance, today, calls>>

\* points_model.award_meeting_attendance_points(meeting_id, attendance_data)
AwardMeetingAttendancePoints(m, attendance_data) ==
    LET r == award_meeting_attendance_points(citizens, citizen_points, meetings,
                                             today, m, attendance_data)
    IN  /\ citizens' = r.citizens
        /\ citizen_points' = r.citizen_points
        /\ last' = [NoCall EXCEPT !.op = "award_meeting_attendance_points",
                                  !.meeting_id = m, !.data = attendance_data,
                                  !.attempted = r.attempted,
                                  !.history = Len(citizen_points),
                                  !.ret = Some(r.count)]
        /\ UNCHANGED <<system, meetings, meeting_seq, attendance, today, calls>>

\* points_model.get_leaderboard(limit)
GetLeaderboard(limit) ==
    /\ \E b \in get_leaderboard(citizens, citizen_points, limit) :
          last' = [NoCall EXCEPT !.op = "get_leaderboard", !.limit = limit, !.board = b]
    /\ UNCHANGED <<system, citizens, citizen_points, meetings, meeting_seq, attendance, today, calls>>

\* points_model.get_citizen_rank(citizen_id)
GetCitizenRank(c) ==
    /\ last' = [NoCall EXCEPT !.op = "get_citizen_rank", !.citizen_id = c,
                              !.ret = Some(get_citizen_rank(citizens, c))]
    /\ UNCHANGED <<system, citizens, citizen_points, meetings, meeting_seq, attendance, today, calls>>

\* points_model.get_points_distribution()
GetPointsDistribution ==
    /\ last' = [NoCall EXCEPT !.op = "get_points_distribution",
                              !.dist = get_points_distribution(citizens)]
    /\ UNCHANGED <<system, citizens, citizen_points, meetings, meeting_seq, attendance, today, calls>>

\* points_model.get_citizen_achievements(citizen_id)
GetCitizenAchievements(c) ==
    LET r == get_citizen_achievements(citizen_points, c)
    IN  /\ last' = [NoCall EXCEPT !.op = "get_citizen_achievements", !.citizen_id = c,
                                  !.raised = r.raised, !.achievements = r.achievements]
        /\ UNCHANGED <<system, citizens, citizen_points, meetings, meeting_seq, attendance,
                       today, calls>>

\* citizen_model.add_citizen(full_name, passport_data=passport_data)
AddCitizen(full_name, passport_data) ==
    LET cits == add_citizen(citizens, full_name, passport_data)
    IN  /\ citizens' = cits
        /\ last' = [NoCall EXCEPT !.op = "add_citizen",
                                  !.ret = IF Len(cits) > Len(citizens)
                                          THEN Some(Len(cits)) ELSE None]
        /\ UNCHANGED <<system, citizen_points, meetings, meeting_seq, attendance, today, calls>>

\* citizen_model.update_citizen(citizen_id, **kwargs)
UpdateCitizen(c, kwargs) ==
    LET r == update_citizen(citizens, c, kwargs)
    IN  /\ citizens' = r.citizens
        /\ last' = [NoCall EXCEPT !.op = "update_citizen", !.citizen_id = c,
                                  !.data = kwargs, !.ok = r.ret]
        /\ UNCHANGED <<system, citizen_points, meetings, meeting_seq, attendance, today, calls>>

\* citizen_model.deactivate_citizen(citizen_id, reason)
DeactivateCitizen(c) ==
    /\ citizens' = deactivate_citizen(citizens, c)
    /\ last' = [NoCall EXCEPT !.op = "deactivate_citizen", !.citizen_id = c, !.ok = TRUE]
    /\ UNCHANGED <<system, citizen_points, meetings, meeting_seq, attendance, today, calls>>

\* citizen_model.activate_citizen(citizen_id)
ActivateCitizen(c) ==
    /\ citizens' = activate_citizen(citizens, c)
    /\ last' = [NoCall EXCEPT !.op = "activate_citizen", !.citizen_id = c, !.ok = TRUE]
    /\ UNCHANGED <<system, citizen_points, meetings, meeting_seq, attendance, today, calls>>

\* citizen_model.get_paginated(page, page_size, where_clause)
GetPaginated(page, page_size, where) ==
    /\ last' = [NoCall EXCEPT !.op = "get_paginated",
                              !.page = get_paginated(citizens, page, page_size, where),
                              !.flag = (where = "")]
    /\ UNCHANGED <<system, citizens, citizen_points, meetings, meeting_seq, attendance, today, calls>>

\* meeting_model.create_meeting with a valid title and date
CreateMeeting ==
    /\ StatementPrepares("meetings",
          CreateColumns({"title", "meeting_date", "meeting_time", "location", "agenda",
                         "status", "attendance_count", "total_invited", "created_by"}))
    /\ meeting_seq' = meeting_seq + 1
    /\ meetings' = [m \in DOMAIN meetings \cup {meeting_seq + 1} |->
                      IF m \in DOMAIN meetings THEN meetings[m]
                      ELSE [status |-> "PLANNED", attendance_count |-> 0,
                            total_invited |-> 0]]
    /\ last' = [NoCall EXCEPT !.op = "create_meeting", !.meeting_id = meeting_seq + 1,
                              !.ret = Some(meeting_seq + 1)]
    /\ UNCHANGED <<system, citizens, citizen_points, attendance, today, calls>>

\* toggle_attendance(meeting_model, meeting_id, citizen_id, is_present)
ToggleAttendance(m, c, is_present) ==
    LET r == toggle_attendance(citizens, meetings, attendance, m, c, is_present)
    IN  /\ attendance' = r.attendance
        /\ meetings' = r.meetings
        /\ last' = [NoCall EXCEPT !.op = "toggle_attendance", !.meeting_id = m,
                                  !.citizen_id = c, !.flag = is_present,
                                  !.ok = upsert_ok(citizens, meetings, c, m)]
        /\ UNCHANGED <<system, citizens, citizen_points, meeting_seq, today, calls>>

\* mark_all_present(meeting_model, points_model, meeting_id, attendance_list);
\* the page lists the active citizens
MarkAllPresent(m) ==
    LET r == mark_all(citizens, meetings, attendance, m, get_active_citizens(citizens), 1)
    IN  /\ attendance' = r.attendance
        /\ meetings' = r.meetings
        /\ last' = [NoCall EXCEPT !.op = "mark_all_present", !.meeting_id = m,
                                  !.flag = TRUE]
        /\ UNCHANGED <<system, citizens, citizen_points, meeting_seq, today, calls>>

\* mark_all_absent(meeting_model, meeting_id, attendance_list)
MarkAllAbsent(m) ==
    LET r == mark_all(citizens, meetings, attendance, m, get_active_citizens(citizens), 0)
    IN  /\ attendance' = r.attendance
        /\ meetings' = r.meetings
        /\ last' = [NoCall EXCEPT !.op = "mark_all_absent", !.meeting_id = m]
        /\ UNCHANGED <<system, citizens, citizen_points, meeting_seq, today, calls>>

\* meeting_model.complete_meeting(meeting_id)
CompleteMeeting(m) ==
    /\ meetings' = complete_meeting(meetings, attendance, m)
    /\ last' = [NoCall EXCEPT !.op = "complete_meeting", !.meeting_id = m, !.ok = TRUE]
    /\ UNCHANGED <<system, citizens, citizen_points, meeting_seq, attendance, today, calls>>

\* meeting_model.cancel_meeting(meeting_id, reason)
CancelMeeting(m) ==
    /\ meetings' = cancel_meeting(meetings, m)
    /\ last' = [NoCall EXCEPT !.op = "cancel_meeting", !.meeting_id = m, !.ok = TRUE]
    /\ UNCHANGED <<system, citizens, citizen_points, meeting_seq, attendance, today, calls>>

\* meeting_model.change_status(meeting_id, new_status)
ChangeStatus(m, new_status) ==
    /\ meetings' = change_status(meetings, m, new_status)
    /\ last' = [NoCall EXCEPT !.op = "change_status", !.meeting_id = m,
                              !.activity_type = new_status,
                              !.ok = (new_status \in ValidStatuses)]
    /\ UNCHANGED <<system, citizens, citizen_points, meeting_seq, attendance, today, calls>>

\* meeting_model.delete(meeting_id), the confirmed delete button
DeleteMeeting(m) ==
    /\ meetings' = delete_meeting_rows(meetings, m)
    /\ attendance' = delete_meeting_attendance(attendance, m)
    /\ citizen_points' = delete_meeting_points(citizen_points, m)
    /\ last' = [NoCall EXCEPT !.op = "delete_meeting", !.meeting_id = m, !.ok = TRUE]
    /\ UNCHANGED <<system, citizens, meeting_seq, today, calls>>

\* citizen_model.validate_data(data)
ValidateCitizen(data) ==
    LET r == validate_citizen_fields(data)
    IN  /\ last' = [NoCall EXCEPT !.op = "validate_citizen", !.data = data,
                                  !.raised = r.raised, !.errors = r.errors]
        /\ UNCHANGED <<system, citizens, citizen_points, meetings, meeting_seq, attendance, today, calls>>

\* meeting_model.validate_data(data)
ValidateMeeting(data) ==
    LET r == validate_meeting_fields(data)
    IN  /\ last' = [NoCall EXCEPT !.op = "validate_meeting", !.data = data,
                                  !.raised = r.raised, !.errors = r.errors]
        /\ UNCHANGED <<system, citizens, citizen_points, meetings, meeting_seq, attendance, today, calls>>

\* sms_model.validate_data(data)
ValidateSms(data) ==
    LET r == validate_sms_fields(data)
    IN  /\ last' = [NoCall EXCEPT !.op = "validate_sms", !.data = data,
                                  !.raised = r.raised, !.errors = r.errors]
        /\ UNCHANGED <<system, citizens, citizen_points, meetings, meeting_seq, attendance, today, calls>>

\* points_model.validate_data(data) on integers and strings
ValidatePoints(citizen_id, activity_type, points) ==
    LET data == [citizen_id |-> citizen_id, activity_type |-> activity_type,
                 points2 |-> 2 * points, meeting_id |-> NULL, date_earned |-> today]
    IN  /\ last' = [NoCall EXCEPT !.op = "validate_points", !.citizen_id = citizen_id,
                                  !.activity_type = activity_type,
                                  !.custom = Some(points),
                                  !.errors = validate_data(citizens, data)]
        /\ UNCHANGED <<system, citizens, citizen_points, meetings, meeting_seq, attendance, today, calls>>

\* BaseModel.bulk_insert(data_list) on citizens at the time timestamp. A row
\* of data_list maps column names to values; full_name is NOT NULL. Whether
\* it raised (a row without a key of the first row: KeyError while the
\* parameters are built), what it returned, the parameters of the statement
\* and the table afterwards
bulk_insert(cits, store, data_list, timestamp) ==
    IF data_list = <<>>
    THEN [raised |-> FALSE, failed |-> FALSE, ret |-> TRUE, params |-> <<>>,
          citizens |-> cits]
    ELSE LET columns == DOMAIN data_list[1] \cup {"created_at", "updated_at"}
             raised == \E i \in 1..Len(data_list) :
                          ~(DOMAIN data_list[1] \subseteq DOMAIN data_list[i])
             params_list ==
                [i \in 1..Len(data_list) |->
                    [col \in columns |->
                        IF col \in {"created_at", "updated_at"} THEN timestamp
                        ELSE data_list[i][col]]]
             prepares == StatementPrepares("citizens", columns)
             accepted == [i \in 1..Len(data_list) |->
                             /\ "full_name" \in columns
                             /\ params_list[i]["full_name"] # "None"]
             new_rows == [i \in 1..Len(data_list) |->
                             [is_active |-> 1, total_points |-> 0,
                              passport_data |->
                                 IF "passport_data" \in columns
                                 THEN params_list[i]["passport_data"] ELSE ""]]
             r == execute_many(store, prepares, accepted, cits, new_rows)
         IN  IF raised
             THEN [raised |-> TRUE, failed |-> FALSE, ret |-> FALSE, params |-> <<>>,
                   citizens |-> cits]
             ELSE [raised |-> FALSE,
                   failed |-> (\/ store # "ok" \/ ~prepares
                               \/ \E i \in 1..Len(data_list) : ~accepted[i]),
                   ret |-> r.done, params |-> params_list, citizens |-> r.tables]

\* model.bulk_insert(data_list)
BulkInsert(store, data_list) ==
    LET r == bulk_insert(citizens, store, data_list, today)
    IN  /\ citizens' = r.citizens
        /\ last' = [NoCall EXCEPT !.op = "bulk_insert", !.data = data_list,
                                  !.raised = r.raised, !.failed = r.failed,
                                  !.ok = r.ret, !.params = r.params]
        /\ UNCHANGED <<system, citizen_points, meetings, meeting_seq, attendance, today, calls>>

\* the tables of the store as one value
Tables == [citizens |-> citizens, citizen_points |-> citizen_points,
           meetings |-> meetings, attendance |-> attendance]

\* the tables after a call of BaseModel that issued one statement
SetTables(t) ==
    /\ citizens' = t.citizens
    /\ citizen_points' = t.citizen_points
    /\ meetings' = t.meetings
    /\ attendance' = t.attendance

\* BaseModel.create(data) on citizens; columns are the keys of data, and
\* full_name is NOT NULL without a default
BaseCreate(store, columns) ==
    LET valid == /\ StatementPrepares("citizens", CreateColumns(columns))
                 /\ "full_name" \in columns
        new == [Tables EXCEPT !.citizens =
                  Append(citizens, [is_active |-> 1, total_points |-> 0,
                                    passport_data |-> ""])]
        r == execute_query(store, valid, Tables, new)
    IN  /\ SetTables(r.tables)
        /\ last' = [NoCall EXCEPT !.op = "create", !.failed = (store # "ok" \/ ~valid),
                                  !.ret = IF r.done THEN Some(Len(citizens) + 1) ELSE None]
        /\ UNCHANGED <<system, meeting_seq, today, calls>>

\* BaseModel.update(record_id, data) on citizens with data = {column: v}
BaseUpdate(store, c, column, v) ==
    LET valid == StatementPrepares("citizens", UpdateColumns({column}))
        new == [Tables EXCEPT !.citizens =
                  IF c \in 1..Len(citizens) /\ column = "total_points"
                  THEN [citizens EXCEPT ![c].total_points = v] ELSE citizens]
        r == execute_query(store, valid, Tables, new)
    IN  /\ SetTables(r.tables)
        /\ last' = [NoCall EXCEPT !.op = "update", !.citizen_id = c, !.custom = Some(v),
                                  !.failed = (store # "ok" \/ ~valid), !.ok = r.done]
        /\ UNCHANGED <<system, meeting_seq, today, calls>>

\* BaseModel.delete(record_id) on meetings, the foreign keys acting
BaseDelete(store, m) ==
    LET new == [Tables EXCEPT !.meetings = delete_meeting_rows(meetings, m),
                              !.attendance = delete_meeting_attendance(attendance, m),
                              !.citizen_points = delete_meeting_points(citizen_points, m)]
        r == execute_query(store, TRUE, Tables, new)
    IN  /\ SetTables(r.tables)
        /\ last' = [NoCall EXCEPT !.op = "delete", !.meeting_id = m,
                                  !.failed = (store # "ok"), !.ok = r.done]
        /\ UNCHANGED <<system, meeting_seq, today, calls>>

\* BaseModel.soft_delete(record_id) on citizens: update(record_id, {'is_active': 0})
SoftDelete(store, c) ==
    LET valid == StatementPrepares("citizens", UpdateColumns({"is_active"}))
        new == [Tables EXCEPT !.citizens =
                  IF c \in 1..Len(citizens)
                  THEN [citizens EXCEPT ![c].is_active = 0] ELSE citizens]
        r == execute_query(store, valid, Tables, new)
    IN  /\ SetTables(r.tables)
        /\ last' = [NoCall EXCEPT !.op = "soft_delete", !.citizen_id = c,
                                  !.failed = (store # "ok" \/ ~valid), !.ok = r.done]
        /\ UNCHANGED <<system, meeting_seq, today, calls>>

\* the award button of show_attendance_row for citizen c of meeting m, shown
\* when the entry is present and its points_earned is not set
AwardRowButton(m, c) ==
    LET r == award_points(citizens, citizen_points, meetings, today, c,
                          "meeting_attendance", m, None)
    IN  /\ c \in get_active_citizens(citizens)
        /\ \E x \in attendance : /\ x.meeting_id = m /\ x.citizen_id = c
                                 /\ x.is_present = 1 /\ x.points_earned = 0
        /\ citizens' = r.citizens
        /\ citizen_points' = r.citizen_points
        /\ last' = [NoCall EXCEPT !.op = "award_row_button", !.meeting_id = m,
                                  !.citizen_id = c, !.attempted = <<c>>,
                                  !.ret = r.ret]
        /\ UNCHANGED <<system, meetings, meeting_seq, attendance, today, calls>>

\* award_points_to_present(points_model, meeting_id, attendance_list)
AwardPointsToPresent(m) ==
    LET r == award_entries(citizens, citizen_points, meetings, attendance, today,
                           m, TRUE)
    IN  /\ m \in DOMAIN meetings
        /\ citizens' = r.citizens
        /\ citizen_points' = r.citizen_points
        /\ last' = [NoCall EXCEPT !.op = "award_points_to_present", !.meeting_id = m,
                                  !.attempted = r.attempted, !.ret = Some(r.count)]
        /\ UNCHANGED <<system, meetings, meeting_seq, attendance, today, calls>>

\* the award button of show_meeting_award_form; present_only is the mode
\* of the form; without an eligible entry it only warns
MeetingAwardForm(m, present_only) ==
    LET r == award_entries(citizens, citizen_points, meetings, attendance, today,
                           m, present_only)
    IN  /\ m \in DOMAIN meetings
        /\ citizens' = r.citizens
        /\ citizen_points' = r.citizen_points
        /\ last' = [NoCall EXCEPT !.op = "meeting_award_form", !.meeting_id = m,
                                  !.flag = present_only,
                                  !.attempted = r.attempted, !.ret = Some(r.count)]
        /\ UNCHANGED <<system, meetings, meeting_seq, attendance, today, calls>>

\* whether session p can start a handler
Free(p) == calls[p].pc \in {"idle", "returned"}

\* session p starts the handler call; overlapped records, for every call,
\* whether another session ran a handler at some moment of the call
Start(p, call) ==
    [q \in Sessions |->
        IF q = p
        THEN [call EXCEPT !.overlapped = \E r \in Sessions \ {p} : ~Free(r)]
        ELSE IF Free(q) THEN calls[q]
        ELSE [calls[q] EXCEPT !.overlapped = TRUE]]

\* a session calls points_model.award_points(citizen_id, activity_type,
\* custom_points=...): the value is resolved, the regularity SELECT and the
\* validation run, and on validation errors the call returns None
AwardCall(p, citizen_id, activity_type, custom_points) ==
    LET base2 == ResolvePoints(activity_type, custom_points)
        points2 == IF check_regular_activity(citizen_points, citizen_id,
                                             activity_type, today)
                   THEN ApplyBonus(base2) ELSE base2
        data == [citizen_id |-> citizen_id, activity_type |-> activity_type,
                 points2 |-> points2, meeting_id |-> NULL, date_earned |-> today]
        errors == validate_data(citizens, data)
    IN  /\ Free(p)
        /\ calls' = Start(p,
              [Idle EXCEPT !.pc = IF errors = {} THEN "create" ELSE "returned",
                           !.op = "award_points", !.citizen_id = citizen_id,
                           !.activity_type = activity_type, !.points2 = points2,
                           !.valid = (errors = {})])
        /\ UNCHANGED <<system, citizens, citizen_points, meetings, meeting_seq, attendance,
                       today, last>>

\* the next statement of the award_points call of session p, on a store that
\* answers with store: the INSERT of BaseModel.create, then the SELECT SUM
\* and the UPDATE citizens of _update_citizen_total_points, each statement
\* on a connection of its own
AwardStatement(p, store) ==
    LET call == calls[p]
        c == call.citizen_id
        data == [citizen_id |-> c, activity_type |-> call.activity_type,
                 points2 |-> call.points2, meeting_id |-> NULL, date_earned |-> today]
        row == [citizen_id |-> c, activity_type |-> call.activity_type,
                points |-> call.points2 \div 2, meeting_id |-> NULL,
                date_earned |-> today]
        insert == execute_query(store, create_points(citizens, meetings, data),
                                citizen_points, Append(citizen_points, row))
        update == execute_query(store, TRUE, citizens,
                                IF c \in 1..Len(citizens)
                                THEN [citizens EXCEPT ![c].total_points = call.total]
                                ELSE citizens)
    IN  /\ call.op = "award_points"
        /\ call.pc \in {"create", "sum", "update"}
        /\ citizen_points' = IF call.pc = "create" THEN insert.tables ELSE citizen_points
        /\ citizens' = IF call.pc = "update" THEN update.tables ELSE citizens
        /\ calls' = [calls EXCEPT ![p] =
              CASE call.pc = "create" ->
                     [call EXCEPT !.pc = IF insert.done THEN "sum" ELSE "returned",
                                  !.failed = (store # "ok"),
                                  !.ret = IF insert.done
                                          THEN Some(Len(citizen_points) + 1) ELSE None]
                [] call.pc = "sum" ->
                     [call EXCEPT !.pc = IF store = "ok" THEN "update" ELSE "returned",
                                  !.failed = (store # "ok"),
                                  !.total = IF store = "ok"
                                            THEN SumPoints(citizen_points, c) ELSE 0]
                [] call.pc = "update" ->
                     [call EXCEPT !.pc = "returned", !.failed = (store # "ok")]]
        /\ UNCHANGED <<system, meetings, meeting_seq, attendance, today, last>>

\* a session submits show_single_citizen_award_form for an active citizen
PageSubmit(p, c, a, custom) ==
    LET points == IF custom # None THEN custom[1] ELSE PageActivityTypes[a]
    IN  /\ Free(p)
        /\ c \in get_active_citizens(citizens)
        /\ a \in DOMAIN PageActivityTypes
        /\ points >= -1000 /\ points <= 1000
        /\ calls' = Start(p,
              [Idle EXCEPT !.pc = "page_insert", !.op = "page_award",
                           !.citizen_id = c, !.activity_type = a,
                           !.points2 = 2 * points, !.valid = TRUE])
        /\ UNCHANGED <<system, citizens, citizen_points, meetings, meeting_seq, attendance,
                       today, last>>

\* the next statement of the submit handler of session p: its INSERT, then
\* its UPDATE citizens SET total_points = (SELECT SUM ...), one statement
PageStatement(p, store) ==
    LET call == calls[p]
        c == call.citizen_id
        row == [citizen_id |-> c, activity_type |-> call.activity_type,
                points |-> call.points2 \div 2, meeting_id |-> NULL,
                date_earned |-> today]
        insert == execute_query(store, c \in 1..Len(citizens),
                                citizen_points, Append(citizen_points, row))
        update == execute_query(store, TRUE, citizens,
                                update_citizen_total_points(citizens, citizen_points, c))
    IN  /\ call.op = "page_award"
        /\ call.pc \in {"page_insert", "page_update"}
        /\ citizen_points' = IF call.pc = "page_insert" THEN insert.tables
                             ELSE citizen_points
        /\ citizens' = IF call.pc = "page_update" THEN update.tables ELSE citizens
        /\ calls' = [calls EXCEPT ![p] =
              IF call.pc = "page_insert"
              THEN [call EXCEPT !.pc = IF insert.done THEN "page_update" ELSE "returned",
                                !.failed = (store # "ok"),
                                !.ret = IF insert.done
                                        THEN Some(Len(citizen_points) + 1) ELSE None]
              ELSE [call EXCEPT !.pc = "returned", !.failed = (store # "ok")]]
        /\ UNCHANGED <<system, meetings, meeting_seq, attendance, today, last>>

\* a session clicks the attendance switch of a citizen:
\* toggle_attendance(meeting_model, meeting_id, citizen_id, is_present)
ToggleCall(p, m, c, is_present) ==
    /\ Free(p)
    /\ calls' = Start(p, [Idle EXCEPT !.pc = "upsert", !.op = "toggle_attendance",
                                      !.meeting_id = m, !.citizen_id = c,
                                      !.flag = is_present, !.valid = TRUE])
    /\ UNCHANGED <<system, citizens, citizen_points, meetings, meeting_seq, attendance,
                   today, last>>

\* the next statement of the toggle_attendance call of session p: the
\* INSERT OR REPLACE, then the aggregate SELECT and the UPDATE meetings of
\* update_attendance_count, each statement on a connection of its own
ToggleStatement(p, store) ==
    LET call == calls[p]
        m == call.meeting_id
        rows == MeetingRows(attendance, m)
        upsert == execute_query(store,
                     upsert_ok(citizens, meetings, call.citizen_id, m), attendance,
                     upsert_attendance(citizens, meetings, attendance, call.citizen_id,
                                       m, IF call.flag THEN 1 ELSE 0))
        update == execute_query(store,
                     StatementPrepares("meetings",
                         UpdateColumns({"total_invited", "attendance_count"})),
                     meetings,
                     IF m \in DOMAIN meetings
                     THEN [meetings EXCEPT ![m].total_invited = call.total,
                                           ![m].attendance_count = call.count]
                     ELSE meetings)
    IN  /\ call.op = "toggle_attendance"
        /\ call.pc \in {"upsert", "count", "update"}
        /\ attendance' = IF call.pc = "upsert" THEN upsert.tables ELSE attendance
        /\ meetings' = IF call.pc = "update" THEN update.tables ELSE meetings
        /\ calls' = [calls EXCEPT ![p] =
              CASE call.pc = "upsert" ->
                     [call EXCEPT !.pc = IF upsert.done THEN "count" ELSE "returned",
                                  !.failed = ~upsert.done]
                [] call.pc = "count" ->
                     [call EXCEPT !.pc = IF store = "ok" THEN "update" ELSE "returned",
                                  !.failed = (store # "ok"),
                                  !.total = IF store = "ok" THEN Cardinality(rows) ELSE 0,
                                  !.count = IF store = "ok"
                                            THEN Cardinality({r \in rows : r.is_present = 1})
                                            ELSE 0]
                [] call.pc = "update" ->
                     [call EXCEPT !.pc = "returned", !.failed = ~update.done]]
        /\ UNCHANGED <<system, citizens, citizen_points, meeting_seq, today, last>>

----------------------------------------------------------------------------
(* The rewards ledger: awards, deductions, the award form, (de)activation *)

\* citizen ids passed to the calls: two seeded citizens and an id without a row
CitizenArgs == {1, 2, SeedCitizens + 1}

AwardActivityArgs == {"meeting_attendance", "initiative"}
AwardCustomArgs == {None, Some(0), Some(1001)}

NextLedger ==
    \/ \E c \in CitizenArgs, a \in AwardActivityArgs, custom \in AwardCustomArgs :
          AwardPoints(c, a, NULL, custom) /\ Len(citizen_points') <= MaxLedger
    \/ \E c \in CitizenArgs :
          DeductPoints(c, 5) /\ Len(citizen_points') <= MaxLedger
    \/ \E c \in 1..2 :
          Len(citizen_points) < MaxLedger /\ PageAward(c, "meeting_attendance", None)
    \/ \E c \in 1..2 : DeactivateCitizen(c)
    \/ \E c \in 1..2 : ActivateCitizen(c)

SpecLedger == Init /\ [][NextLedger]_vars

----------------------------------------------------------------------------
(* C1 *)

\* C1: after award_points calls made one at a time, total_points of every
\* citizen is the sum of the points of the citizen's ledger rows, and one
\* award of meeting_attendance (10) to an active citizen without history
\* leaves exactly one ledger row of that citizen and total_points = 10.
C1_AwardKeepsTotal ==
    /\ \A c \in CitizenIds : citizens[c].total_points = SumPoints(citizen_points, c)
    /\ (/\ last.op = "award_points"
        /\ last.activity_type = "meeting_attendance"
        /\ last.custom = None
        /\ last.history = 0
        /\ CitizenActive(last.citizen_id))
       => /\ CountPoints(citizen_points, last.citizen_id) = 1
          /\ citizens[last.citizen_id].total_points = 10

----------------------------------------------------------------------------
(* C6 *)

\* the activity types POINTS_CONFIG gives a value to
KnownActivityTypes ==
    {"meeting_attendance", "subbotnik", "community_work", "volunteer_work"}

InPointsRange(p) == p >= -1000 /\ p <= 1000

\* C6: an award_points call whose citizen does not exist or is inactive,
\* whose activity_type is not known or whose final value is outside
\* [-1000, 1000] returns None and leaves the ledger and every total
\* unchanged; a row that an award_points call writes has points within
\* [-1000, 1000], a known activity_type and a citizen active at that moment.
C6_InvalidAwardRejected ==
    [][ last'.op = "award_points" =>
          /\ (\/ ~CitizenActive(last'.citizen_id)
              \/ last'.activity_type \notin KnownActivityTypes
              \/ ~InPointsRange(TruncDiv(last'.points2, 2)))
             => /\ last'.ret = None
                /\ citizen_points' = citizen_points
                /\ citizens' = citizens
          /\ citizen_points' # citizen_points
             => /\ Len(citizen_points') = Len(citizen_points) + 1
                /\ LET row == citizen_points'[Len(citizen_points')]
                   IN  /\ InPointsRange(row.points)
                       /\ row.activity_type \in KnownActivityTypes
                       /\ CitizenActive(row.citizen_id)
      ]_vars

\* an award to an inactive citizen and one with a value above 1000 were refused
C6_Witness ==
    /\ last.op = "award_points"
    /\ last.ret = None
    /\ last.errors = {"citizen_id", "points"}
    /\ CitizenExists(last.citizen_id)
    /\ Len(citizen_points) > 0


----------------------------------------------------------------------------
(* The regularity bonus: awards after a history of award-form rows *)

RegularRows == 6         \* rows of the longest history the store starts with
MaxRegularDay == 91      \* last day number reached by the clock

\* The row i of a history of n rows written by the award form, one row a day
\* from day 0 on.  With dup the last row repeats the day of the row before
\* it; the row odd (0: none) is of citizen 2 or of another activity type.
HistoryRow(i, n, dup, odd, oddKind) ==
    LET a == IF i = odd /\ oddKind = "type" THEN "subbotnik" ELSE "meeting_attendance"
    IN  [citizen_id |-> IF i = odd /\ oddKind = "citizen" THEN 2 ELSE 1,
         activity_type |-> a,
         points |-> PageActivityTypes[a],
         meeting_id |-> NULL,
         date_earned |-> IF dup /\ i = n THEN n - 2 ELSE i - 1]

InitRegular ==
    \E n \in (RegularMinDays - 1)..RegularRows, dup \in BOOLEAN,
       odd \in 0..RegularRows, oddKind \in {"citizen", "type"} :
        LET rows == [i \in 1..n |-> HistoryRow(i, n, dup, odd, oddKind)]
        IN  /\ odd <= n
            /\ citizen_points = rows
            /\ citizens = [i \in 1..SeedCitizens |->
                             [is_active |-> 1, total_points |-> SumPoints(rows, i),
                              passport_data |-> SeedPassport[i]]]
            /\ meetings = <<>>
            /\ meeting_seq = 0
            /\ attendance = {}
            /\ today = n - 1
            /\ last = NoCall
            /\ calls = NoCalls
            /\ users = SeededUsers
            /\ activity_types = SeededActivityRows
            /\ session_state = NoSession
            /\ clock = 0
            /\ sms_campaigns = <<>>
            /\ sms_logs = <<>>

RegularActivityArgs == {"meeting_attendance", "subbotnik"}
RegularCustomArgs == {None, Some(7)}
\* the clock jumps from the days of the history to the edge of the window
RegularTicks == {RegularWindowDays - 5, RegularWindowDays - 4}

NextRegular ==
    \/ \E c \in 1..2, a \in RegularActivityArgs, custom \in RegularCustomArgs :
          AwardPoints(c, a, NULL, custom)
    \/ \E c \in 1..2, a \in RegularActivityArgs :
          Len(citizen_points) < RegularRows /\ PageAward(c, a, None)
    \/ \E days \in RegularTicks :
          today + days <= MaxRegularDay /\ Tick(days)

SpecRegular == InitRegular /\ [][NextRegular]_vars

\* the days of the last 90 on which the ledger holds a row of citizen c and
\* activity type a
DaysWithRows(c, a) ==
    {d \in {citizen_points[i].date_earned : i \in 1..Len(citizen_points)} :
        /\ d >= today - 90
        /\ \E i \in 1..Len(citizen_points) : /\ citizen_points[i].citizen_id = c
                                             /\ citizen_points[i].activity_type = a
                                             /\ citizen_points[i].date_earned = d}

\* the point value before the bonus: the custom points, else the default
BasePoints(a, custom) ==
    IF custom # None THEN custom[1]
    ELSE IF a = "meeting_attendance" THEN 10 ELSE 15

\* C2: award_points multiplies the resolved point value by 1.5 and truncates
\* it to an integer exactly when the ledger holds rows of that citizen and
\* that activity type on at least 6 distinct days of the last 90 days
\* (10 becomes 15, 15 becomes 22); with 5 or fewer such days the value is
\* left unchanged.
C2_RegularBonus ==
    [][last'.op = "award_points" =>
          LET c == last'.citizen_id
              a == last'.activity_type
              base == BasePoints(a, last'.custom)
          IN  IF Cardinality(DaysWithRows(c, a)) >= 6
              THEN /\ last'.points2 = 2 * TruncDiv(3 * base, 2)
                   /\ (base = 10 => last'.points2 = 2 * 15)
                   /\ (base = 15 => last'.points2 = 2 * 22)
              ELSE last'.points2 = 2 * base]_vars

\* an award of meeting_attendance after six days with such rows: 10 became 15
C2_Witness ==
    /\ last.op = "award_points"
    /\ last.activity_type = "meeting_attendance"
    /\ last.custom = None
    /\ Cardinality(DaysWithRows(last.citizen_id, "meeting_attendance")) >= 6
    /\ last.points2 = 2 * 15


----------------------------------------------------------------------------
(* Meetings and attendance *)

\* meeting ids passed to the calls: the first and the last meeting created
MeetingArgs == {1, MaxMeetings}

NextMeetings ==
    \/ meeting_seq < MaxMeetings /\ CreateMeeting
    \/ \E m \in MeetingArgs, c \in {1, SeedCitizens + 1}, is_present \in BOOLEAN :
          ToggleAttendance(m, c, is_present)
    \/ \E m \in MeetingArgs : MarkAllPresent(m)
    \/ \E m \in MeetingArgs : MarkAllAbsent(m)
    \/ \E m \in MeetingArgs : CompleteMeeting(m)
    \/ \E m \in MeetingArgs : CancelMeeting(m)
    \/ \E m \in MeetingArgs, new_status \in {"PLANNED", "ARCHIVED"} :
          ChangeStatus(m, new_status)
    \/ \E m \in MeetingArgs : DeleteMeeting(m)
    \/ DeactivateCitizen(1)
    \/ ActivateCitizen(1)

SpecMeetings == Init /\ [][NextMeetings]_vars

AttendanceCalls == {"toggle_attendance", "mark_all_present", "mark_all_absent"}

\* C3: after every toggle_attendance, mark_all_present, mark_all_absent or
\* complete_meeting call on a meeting, the meeting's total_invited equals the
\* number of attendance rows of that meeting and its attendance_count equals
\* the number of those rows with is_present = 1.
C3_CountersLive ==
    (/\ last.op \in AttendanceCalls \cup {"complete_meeting"}
     /\ last.meeting_id \in DOMAIN meetings)
    => LET m == last.meeting_id
       IN  /\ meetings[m].total_invited =
                 Cardinality({r \in attendance : r.meeting_id = m})
           /\ meetings[m].attendance_count =
                 Cardinality({r \in attendance : r.meeting_id = m /\ r.is_present = 1})

\* a toggle to absent on a meeting that keeps present citizens
C3_Witness ==
    /\ last.op = "toggle_attendance"
    /\ ~last.flag
    /\ last.meeting_id \in DOMAIN meetings
    /\ meetings[last.meeting_id].total_invited >= 2
    /\ meetings[last.meeting_id].attendance_count >= 1
    /\ meetings[last.meeting_id].attendance_count
          < meetings[last.meeting_id].total_invited

PairRows(att, c, m) == {r \in att : r.citizen_id = c /\ r.meeting_id = m}

\* C4: after any sequence of toggle_attendance, mark_all_present and
\* mark_all_absent calls there is at most one attendance row per
\* (citizen_id, meeting_id) pair, and its is_present is the value written by
\* the most recent call for that pair: each such call leaves one row with
\* its value for every pair it writes and leaves the rows of every other
\* pair as they were.
C4_OneRowLatestValue ==
    [][last'.op \in AttendanceCalls =>
          LET m == last'.meeting_id
              written == IF m \notin DOMAIN meetings THEN {}
                         ELSE IF last'.op = "toggle_attendance"
                         THEN {last'.citizen_id} \cap (1..Len(citizens))
                         ELSE {c \in 1..Len(citizens) : citizens[c].is_active = 1}
              value == IF last'.op = "toggle_attendance"
                       THEN (IF last'.flag THEN 1 ELSE 0)
                       ELSE IF last'.op = "mark_all_present" THEN 1 ELSE 0
              pairs == {<<r.citizen_id, r.meeting_id>> : r \in attendance \cup attendance'}
                       \cup {<<c, m>> : c \in written}
          IN  \A p \in pairs :
                 /\ Cardinality(PairRows(attendance', p[1], p[2])) <= 1
                 /\ IF p[2] = m /\ p[1] \in written
                    THEN \E r \in PairRows(attendance', p[1], p[2]) : r.is_present = value
                    ELSE PairRows(attendance', p[1], p[2])
                            = PairRows(attendance, p[1], p[2])]_vars

\* a toggle to absent of a citizen whose row of that meeting is the only
\* absent one
C4_Witness ==
    /\ last.op = "toggle_attendance"
    /\ ~last.flag
    /\ \E r \in attendance : /\ r.citizen_id = last.citizen_id
                             /\ r.meeting_id = last.meeting_id
                             /\ r.is_present = 0
    /\ \E r \in attendance : /\ r.citizen_id # last.citizen_id
                             /\ r.meeting_id = last.meeting_id
                             /\ r.is_present = 1
    /\ \E r \in attendance : r.meeting_id # last.meeting_id


----------------------------------------------------------------------------
(* The citizen registry and its paginated listing *)

MaxPage == 5             \* page numbers requested
MaxPageSize == 3         \* page sizes requested

\* the keyword arguments of the update_citizen calls
UpdateArgs ==
    {[k \in {"full_name"} |-> "Aliev Vali"],
     [k \in {"passport_data"} |-> "AB1234567"],
     [k \in {"full_name", "passport_data"} |->
         IF k = "full_name" THEN "Aliev Vali" ELSE "AB1234567"],
     [k \in {"full_name", "passport_data"} |->
         IF k = "full_name" THEN "Aliev Vali" ELSE ""]}

NextCitizens ==
    \/ \E full_name \in NameInputs, passport_data \in PassportInputs :
          Len(citizens) < MaxCitizens /\ AddCitizen(full_name, passport_data)
    \/ \E c \in 1..2, kwargs \in UpdateArgs : UpdateCitizen(c, kwargs)
    \/ \E c \in 1..2 : DeactivateCitizen(c)
    \/ \E c \in 1..2 : ActivateCitizen(c)
    \/ \E page \in 1..MaxPage, page_size \in 1..MaxPageSize,
          where \in {"", "is_active = 1"} : GetPaginated(page, page_size, where)

SpecCitizens == Init /\ [][NextCitizens]_vars

\* C5: after any sequence of add_citizen, update_citizen, deactivate_citizen
\* and activate_citizen calls, no two active citizens have the same
\* non-empty passport_data.
C5_PassportUnique ==
    \A i, j \in 1..Len(citizens) :
        (/\ i # j
         /\ citizens[i].is_active = 1
         /\ citizens[j].is_active = 1
         /\ citizens[i].passport_data # "")
        => citizens[i].passport_data # citizens[j].passport_data

\* the data of the pages 1..k of the listing the last call read
RECURSIVE PagesUpTo(_, _, _)
PagesUpTo(k, page_size, where) ==
    IF k = 0 THEN <<>>
    ELSE PagesUpTo(k - 1, page_size, where)
         \o get_paginated(citizens, k, page_size, where).data

\* C9: for a table of N rows and a page_size P > 0, the data of get_paginated
\* for the pages 1..ceil(N/P), concatenated, holds every row exactly once in
\* the order of the ids; each result reports total_count = N, total_pages =
\* ceil(N/P), has_prev = (page > 1) and has_next = (page < total_pages); every
\* page greater than total_pages has empty data and has_next = false.
C9_Pagination ==
    last.op = "get_paginated" =>
        LET res == last.page
            pg == res.pagination
            P == pg.page_size
            where == IF last.flag THEN "" ELSE "is_active = 1"
            rows == {c \in 1..Len(citizens) : last.flag \/ citizens[c].is_active = 1}
            N == Cardinality(rows)
            pages == IF N % P = 0 THEN N \div P ELSE N \div P + 1
            all == PagesUpTo(pages, P, where)
        IN  /\ pg.total_count = N
            /\ pg.total_pages = pages
            /\ pg.has_prev = (pg.page > 1)
            /\ pg.has_next = (pg.page < pages)
            /\ res = get_paginated(citizens, pg.page, P, where)
            /\ {all[i] : i \in 1..Len(all)} = rows
            /\ \A i, j \in 1..Len(all) : i < j => all[i] < all[j]
            /\ (pg.page > pages => res.data = <<>> /\ ~pg.has_next)

\* the last page of a listing of several pages, only partly filled
C9_Witness ==
    /\ last.op = "get_paginated"
    /\ last.page.pagination.total_pages >= 2
    /\ last.page.pagination.page = last.page.pagination.total_pages
    /\ Len(last.page.data) >= 1
    /\ Len(last.page.data) < last.page.pagination.page_size
    /\ last.page.pagination.total_count < Len(citizens)


----------------------------------------------------------------------------
(* The ledger under the operations of the other subsystems *)

\* the attendance_data of the bulk award calls: <<citizen_id, is_present>>
AttendanceDataArgs ==
    {<< <<1, TRUE>>, <<2, TRUE>> >>,
     << <<1, TRUE>>, <<2, FALSE>> >>,
     << <<SeedCitizens + 1, TRUE>>, <<1, TRUE>> >>,
     << <<1, FALSE>>, <<2, FALSE>> >>}

NextSystem ==
    \/ Len(citizen_points) < MaxLedger /\ PageAward(1, "meeting_attendance", None)
    \/ \E m \in {NULL, 1} :
          AwardPoints(1, "meeting_attendance", m, None)
             /\ Len(citizen_points') <= MaxLedger
    \/ DeductPoints(1, 5) /\ Len(citizen_points') <= MaxLedger
    \/ meeting_seq < MaxMeetings /\ CreateMeeting
    \/ \E is_present \in BOOLEAN : ToggleAttendance(1, 1, is_present)
    \/ CompleteMeeting(1)
    \/ CancelMeeting(1)
    \/ DeleteMeeting(1)
    \/ \E kwargs \in UpdateArgs : UpdateCitizen(1, kwargs)
    \/ \E c \in 1..2 : DeactivateCitizen(c)
    \/ \E c \in 1..2 : ActivateCitizen(c)
    \/ \E attendance_data \in AttendanceDataArgs :
          AwardMeetingAttendancePoints(1, attendance_data)
             /\ Len(citizen_points') <= MaxLedger

SpecSystem == Init /\ [][NextSystem]_vars

\* C7: once a citizen_points row has been appended, no operation (award_points,
\* deduct_points, attendance toggling, completing, cancelling or deleting a
\* meeting, updating, deactivating or reactivating a citizen) changes any of
\* its fields or removes it.
C7_LedgerAppendOnly ==
    [][/\ Len(citizen_points') >= Len(citizen_points)
       /\ \A i \in 1..Len(citizen_points) : citizen_points'[i] = citizen_points[i]]_vars

\* a meeting was deleted while the ledger holds a row of a deactivated citizen
C7_Witness ==
    /\ last.op = "delete_meeting"
    /\ last.meeting_id <= meeting_seq
    /\ last.meeting_id \notin DOMAIN meetings
    /\ Len(citizen_points) >= 1
    /\ citizens[citizen_points[1].citizen_id].is_active = 0

\* C8: deactivate_citizen(c) changes only the row of citizen c, where
\* is_active becomes 0: every citizen_points row and every attendance row is
\* unchanged, no other citizen's row changes, and c is not in the result of
\* get_active_citizens().
C8_DeactivateFrame ==
    [][last'.op = "deactivate_citizen" =>
          LET c == last'.citizen_id
          IN  /\ citizen_points' = citizen_points
              /\ attendance' = attendance
              /\ meetings' = meetings
              /\ Len(citizens') = Len(citizens)
              /\ \A i \in 1..Len(citizens) :
                    citizens'[i] = IF i = c THEN [citizens[i] EXCEPT !.is_active = 0]
                                   ELSE citizens[i]
              /\ c \notin get_active_citizens(citizens')]_vars

\* the deactivated citizen has a ledger row, a total and an attendance row
C8_Witness ==
    /\ last.op = "deactivate_citizen"
    /\ last.citizen_id \in 1..Len(citizens)
    /\ citizens[last.citizen_id].is_active = 0
    /\ citizens[last.citizen_id].total_points > 0
    /\ \E i \in 1..Len(citizen_points) : citizen_points[i].citizen_id = last.citizen_id
    /\ \E r \in attendance : r.citizen_id = last.citizen_id
    /\ get_active_citizens(citizens) # {}


----------------------------------------------------------------------------
(* The leaderboard over totals written by the award form *)

BoardRows == 3           \* rows of citizen_points
BoardLimit == 3          \* largest limit requested

BoardCitizens == 1..3
BoardCustomArgs == {Some(50), Some(100), Some(-50)}

NextBoard ==
    \/ \E c \in BoardCitizens, custom \in BoardCustomArgs :
          Len(citizen_points) < BoardRows /\ PageAward(c, "meeting_attendance", custom)
    \/ DeactivateCitizen(3)
    \/ ActivateCitizen(3)
    \/ \E limit \in 0..BoardLimit : GetLeaderboard(limit)
    \/ \E c \in BoardCitizens \cup {SeedCitizens + 1} : GetCitizenRank(c)
    \/ GetPointsDistribution
    \/ \E c \in {1, SeedCitizens + 1} : GetCitizenAchievements(c)

SpecBoard == Init /\ [][NextBoard]_vars

\* the number of ledger rows of citizen c
LedgerRowCount(c) ==
    Cardinality({k \in 1..Len(citizen_points) : citizen_points[k].citizen_id = c})

\* the active citizens with a positive total
Qualifying == {c \in 1..Len(citizens) :
                  citizens[c].is_active = 1 /\ citizens[c].total_points > 0}

\* C10: get_leaderboard(limit) without a period returns at most limit
\* citizens, each active and with total_points > 0, in non-increasing order
\* of total_points with ties ordered by ledger-row count descending, and it
\* never omits an active citizen whose positive total is larger than that of
\* a citizen it returns (totals [50, 0, 200] with limit 3 give [200, 50]).
C10_Leaderboard ==
    last.op = "get_leaderboard" =>
        LET b == last.board
            n == Len(b)
        IN  /\ n <= last.limit
            /\ \A i \in 1..n : /\ b[i].id \in Qualifying
                               /\ b[i].total_points = citizens[b[i].id].total_points
                               /\ b[i].activities_count = LedgerRowCount(b[i].id)
            /\ \A i, j \in 1..n : i < j =>
                  /\ b[i].id # b[j].id
                  /\ b[i].total_points >= b[j].total_points
                  /\ (b[i].total_points = b[j].total_points
                         => b[i].activities_count >= b[j].activities_count)
            /\ \A c \in Qualifying \ {b[i].id : i \in 1..n} :
                  /\ n = last.limit
                  /\ \A i \in 1..n : citizens[c].total_points <= b[i].total_points
            /\ (/\ last.limit = 3
                /\ \A c \in 1..Len(citizens) :
                      /\ citizens[c].is_active = 1
                      /\ citizens[c].total_points
                            = (IF c = 1 THEN 50 ELSE IF c = 3 THEN 200 ELSE 0))
               => (n = 2 /\ b[1].total_points = 200 /\ b[2].total_points = 50)

\* the totals [50, 0, 200] with limit 3 gave [200, 50]
C10_Witness ==
    /\ last.op = "get_leaderboard"
    /\ last.limit = 3
    /\ citizens[1].total_points = 50
    /\ citizens[2].total_points = 0
    /\ citizens[3].total_points = 200
    /\ Len(last.board) = 2
    /\ last.board[1].id = 3
    /\ last.board[2].id = 1


\* the citizens table with the total of every deactivated citizen set to v
InactiveTotals(v) ==
    [i \in 1..Len(citizens) |->
        IF citizens[i].is_active = 1 THEN citizens[i]
        ELSE [citizens[i] EXCEPT !.total_points = v]]

\* C11: for an active citizen c, get_citizen_rank(c) returns 1 plus the
\* number of active citizens whose total_points is strictly greater than
\* c's: inactive citizens never change a rank, citizens with equal totals
\* get the same rank, and the active citizen with the highest total has
\* rank 1.
C11_Rank ==
    (/\ last.op = "get_citizen_rank"
     /\ last.citizen_id \in 1..Len(citizens)
     /\ citizens[last.citizen_id].is_active = 1)
    => LET c == last.citizen_id
           active == {d \in 1..Len(citizens) : citizens[d].is_active = 1}
           greater == {d \in active : citizens[d].total_points > citizens[c].total_points}
       IN  /\ last.ret = Some(1 + Cardinality(greater))
           /\ \A v \in {-1000, 0, 1000} :
                 last.ret = Some(get_citizen_rank(InactiveTotals(v), c))
           /\ \A d \in active :
                 citizens[d].total_points = citizens[c].total_points
                    => last.ret = Some(get_citizen_rank(citizens, d))
           /\ (\A d \in active : citizens[d].total_points <= citizens[c].total_points)
                 => last.ret = Some(1)

\* rank 2 of an active citizen, below one active citizen and a deactivated
\* citizen with a greater total
C11_Witness ==
    /\ last.op = "get_citizen_rank"
    /\ last.citizen_id \in 1..Len(citizens)
    /\ citizens[last.citizen_id].is_active = 1
    /\ last.ret = Some(2)
    /\ \E d \in 1..Len(citizens) :
          /\ citizens[d].is_active = 0
          /\ citizens[d].total_points > citizens[last.citizen_id].total_points


\* C12: deduct_points(c, amount, reason) for an active citizen c and
\* 0 < amount <= 1000 appends exactly one ledger row for c with activity_type
\* "penalty" and points = -amount, returns its id, and afterwards c's
\* total_points is lower by amount than before the call.
C12_DeductAppends ==
    [][(/\ last'.op = "deduct_points"
        /\ last'.citizen_id \in 1..Len(citizens)
        /\ citizens[last'.citizen_id].is_active = 1
        /\ last'.custom[1] > 0 /\ last'.custom[1] <= 1000)
       => LET c == last'.citizen_id
              amount == last'.custom[1]
              n == Len(citizen_points)
          IN  /\ Len(citizen_points') = n + 1
              /\ SubSeq(citizen_points', 1, n) = citizen_points
              /\ citizen_points'[n + 1].citizen_id = c
              /\ citizen_points'[n + 1].activity_type = "penalty"
              /\ citizen_points'[n + 1].points = -amount
              /\ last'.ret = Some(n + 1)
              /\ citizens'[c].total_points = citizens[c].total_points - amount]_vars


\* the citizens flagged present in attendance_data, in its order
PresentIn(attendance_data) ==
    LET sel == SelectSeq(attendance_data, LAMBDA x : x[2])
    IN  [i \in 1..Len(sel) |-> sel[i][1]]

\* C13: award_meeting_attendance_points(meeting, {citizen: present}) attempts
\* exactly one meeting_attendance award linked to that meeting for every
\* citizen flagged present and none for the citizens flagged absent; a
\* failed award for one citizen neither undoes nor prevents the awards of
\* the others; and the returned count equals the number of ledger rows the
\* call appended.
C13_BulkMeetingAward ==
    [][last'.op = "award_meeting_attendance_points" =>
          LET m == last'.meeting_id
              present == PresentIn(last'.data)
              n == Len(citizen_points)
              added == SubSeq(citizen_points', n + 1, Len(citizen_points'))
              succeeds(c) == award_points(citizens, citizen_points, meetings, today,
                                          c, "meeting_attendance", m, None).ret # None
              awarded == SelectSeq(present, succeeds)
          IN  /\ last'.attempted = present
              /\ Len(citizen_points') >= n
              /\ SubSeq(citizen_points', 1, n) = citizen_points
              /\ last'.ret = Some(Len(added))
              /\ Len(added) = Len(awarded)
              /\ \A i \in 1..Len(added) :
                    /\ added[i].citizen_id = awarded[i]
                    /\ added[i].activity_type = "meeting_attendance"
                    /\ added[i].meeting_id = m]_vars

\* a bulk award for an existing meeting whose first award, for a citizen
\* without a row, failed and whose second award was attempted all the same
C13_Witness ==
    /\ last.op = "award_meeting_attendance_points"
    /\ last.meeting_id \in DOMAIN meetings
    /\ Len(last.attempted) = 2
    /\ last.attempted[1] \notin 1..Len(citizens)
    /\ last.attempted[2] \in get_active_citizens(citizens)
    /\ last.ret = Some(Len(citizen_points) - last.history)


\* the ranges of the distribution: label, lowest and highest total
DistributionRanges ==
    {<<"0", 0, 0>>, <<"1-50", 1, 50>>, <<"51-100", 51, 100>>,
     <<"101-200", 101, 200>>, <<"201-500", 201, 500>>, <<"500+", 501, 1000000>>}

\* the count the result reports for a range: a missing label counts 0
DistributionCount(label) ==
    IF label \in DOMAIN last.dist THEN last.dist[label] ELSE 0

\* C14: get_points_distribution counts each active citizen in exactly one
\* bucket, namely the bucket whose range contains that citizen's
\* total_points (0; 1-50; 51-100; 101-200; 201-500; above 500), never counts
\* inactive citizens, and its bucket counts sum to the number of active
\* citizens.
C14_Distribution ==
    last.op = "get_points_distribution" =>
        LET active == {c \in 1..Len(citizens) : citizens[c].is_active = 1}
        IN  /\ DOMAIN last.dist \subseteq {r[1] : r \in DistributionRanges}
            /\ \A r \in DistributionRanges :
                  DistributionCount(r[1]) =
                     Cardinality({c \in active : /\ citizens[c].total_points >= r[2]
                                                 /\ citizens[c].total_points <= r[3]})


----------------------------------------------------------------------------
(* Validation of input mappings *)

OptionalValues == {"missing", "None", "empty", "valid", "invalid"}

NextValidate ==
    \/ \E data \in [{"full_name"} -> TextValues] \X [{"passport_data"} -> OptionalValues] :
          ValidateCitizen(data[1] @@ data[2])
    \/ \E data \in [{"title"} -> TextValues] \X [{"meeting_date"} -> OptionalValues] :
          ValidateMeeting(data[1] @@ data[2])
    \/ \E data \in [{"title", "message_text"} -> TextValues] : ValidateSms(data)
    \/ \E c \in CitizenArgs \cup {0}, a \in {"", "subbotnik", "penalty"},
          points \in {0, 5, 1001} : ValidatePoints(c, a, points)

SpecValidate == Init /\ [][NextValidate]_vars

\* C15: validate_data of the Citizen, Meeting, SMS-campaign and Points models
\* never raises: for every input mapping, including ones where a field is
\* missing, is an empty string or is present with the value None, it returns
\* a field-to-errors mapping, which is empty exactly when the input is valid.
C15_ValidateNeverRaises ==
    /\ last.op \in {"validate_citizen", "validate_meeting", "validate_sms",
                    "validate_points"} => ~last.raised
    /\ last.op \in {"validate_citizen", "validate_meeting", "validate_sms"} =>
          (last.errors = {} <=> \A f \in DOMAIN last.data :
                                   \/ last.data[f] = "valid"
                                   \/ /\ f = "passport_data"
                                      /\ last.data[f] \in {"missing", "None", "empty"})


----------------------------------------------------------------------------
(* Statements that fail in the store *)

CreateColumnArgs == {{"full_name"}, {"address"}, {"full_name", "nickname"}}

NextStore ==
    \/ \E store \in StoreOutcomes, columns \in CreateColumnArgs :
          Len(citizens) < MaxCitizens /\ BaseCreate(store, columns)
    \/ \E store \in StoreOutcomes, c \in {1, SeedCitizens + 1},
          column \in {"total_points", "nickname"} : BaseUpdate(store, c, column, 7)
    \/ \E store \in StoreOutcomes, m \in MeetingArgs : BaseDelete(store, m)
    \/ \E store \in StoreOutcomes, c \in {1, SeedCitizens + 1} : SoftDelete(store, c)
    \/ meeting_seq < MaxMeetings /\ CreateMeeting
    \/ \E m \in MeetingArgs, is_present \in BOOLEAN : ToggleAttendance(m, 1, is_present)

SpecStore == Init /\ [][NextStore]_vars

BaseCalls == {"create", "update", "delete", "soft_delete"}

\* C16: when the statement issued by create, update, delete or soft_delete
\* fails in the store (a constraint is violated, the store is locked or
\* cannot be opened), the call does not raise, it returns its failure
\* sentinel (None for create, False for the others), and every table is
\* exactly as before the call.
C16_FailedStatement ==
    [][(last'.op \in BaseCalls /\ last'.failed) =>
          /\ ~last'.raised
          /\ (last'.op = "create" => last'.ret = None)
          /\ (last'.op # "create" => last'.ok = FALSE)
          /\ UNCHANGED <<citizens, citizen_points, meetings, attendance>>]_vars

\* each of the four calls has failed: here a delete of a meeting that has
\* attendance rows, on a store that was locked
C16_Witness ==
    /\ last.op = "delete"
    /\ last.failed
    /\ last.meeting_id \in DOMAIN meetings
    /\ \E r \in attendance : r.meeting_id = last.meeting_id


----------------------------------------------------------------------------
(* Two sessions awarding points, statement by statement *)

SessionRows == 2         \* rows of citizen_points

NextSessions ==
    \/ \E p \in Sessions, c \in {1, SeedCitizens + 1}, custom \in {None, Some(5)} :
          AwardCall(p, c, "meeting_attendance", custom)
    \/ \E p \in Sessions, store \in StoreOutcomes :
          AwardStatement(p, store) /\ Len(citizen_points') <= SessionRows
    \/ \E p \in Sessions : PageSubmit(p, 1, "subbotnik", Some(50))
    \/ \E p \in Sessions, store \in StoreOutcomes :
          PageStatement(p, store) /\ Len(citizen_points') <= SessionRows

SpecSessions == Init /\ [][NextSessions]_vars

\* an award_points call of session p for citizen c that was given valid
\* input, met no locked or unavailable store, and has returned
AwardReturned(cs, p, c) ==
    /\ cs[p].op = "award_points"
    /\ cs[p].pc = "returned"
    /\ cs[p].citizen_id = c
    /\ cs[p].valid
    /\ ~cs[p].failed

\* C17: when two award_points calls for the same citizen run concurrently
\* and their statements (ledger insert, SELECT SUM, UPDATE citizens)
\* interleave in any order, then once both calls have returned the total of
\* the citizen equals the sum of the points of all the ledger rows of the
\* citizen, both new rows included.
C17_ConcurrentAwards ==
    \A c \in 1..Len(citizens) :
        (\A p \in Sessions : AwardReturned(calls, p, c)) =>
            /\ \A p \in Sessions :
                  /\ calls[p].ret # None
                  /\ calls[p].ret[1] \in 1..Len(citizen_points)
                  /\ citizen_points[calls[p].ret[1]].citizen_id = c
            /\ calls[1].ret # calls[2].ret
            /\ citizens[c].total_points = SumPoints(citizen_points, c)

----------------------------------------------------------------------------
(* Two sessions marking attendance, statement by statement *)

ToggleMeetings == 1      \* meetings created

NextToggle ==
    \/ meeting_seq < ToggleMeetings /\ CreateMeeting
    \/ \E p \in Sessions, c \in {1, 2}, is_present \in BOOLEAN :
          ToggleCall(p, 1, c, is_present)
    \/ \E p \in Sessions, store \in StoreOutcomes : ToggleStatement(p, store)

SpecToggle == Init /\ [][NextToggle]_vars

\* a toggle_attendance call of session p on meeting m that met no failure
\* and has returned
ToggleReturned(p, m) ==
    /\ calls[p].op = "toggle_attendance"
    /\ calls[p].pc = "returned"
    /\ calls[p].meeting_id = m
    /\ ~calls[p].failed

\* C19: when two toggle_attendance calls on the same meeting, for different
\* citizens, run concurrently and their statements (attendance upsert,
\* aggregate SELECT, UPDATE meetings) interleave in any order, then once
\* both calls have returned total_invited and attendance_count of the
\* meeting equal the live counts over the attendance rows of the meeting.
C19_ConcurrentToggles ==
    \A m \in DOMAIN meetings :
        (/\ \A p \in Sessions : ToggleReturned(p, m)
         /\ calls[1].citizen_id # calls[2].citizen_id)
        => /\ meetings[m].total_invited = Cardinality(MeetingRows(attendance, m))
           /\ meetings[m].attendance_count =
                 Cardinality({r \in MeetingRows(attendance, m) : r.is_present = 1})


----------------------------------------------------------------------------
(* Awards for the attendance of a meeting *)

NextMeetingAwards ==
    \/ meeting_seq < MaxMeetings /\ CreateMeeting
    \/ \E m \in MeetingArgs, c \in 1..2, is_present \in BOOLEAN :
          ToggleAttendance(m, c, is_present)
    \/ \E m \in MeetingArgs, c \in 1..2 :
          AwardRowButton(m, c) /\ Len(citizen_points') <= MaxLedger
    \/ \E m \in MeetingArgs :
          AwardPointsToPresent(m) /\ Len(citizen_points') <= MaxLedger
    \/ \E m \in MeetingArgs, present_only \in BOOLEAN :
          MeetingAwardForm(m, present_only) /\ Len(citizen_points') <= MaxLedger
    \/ DeactivateCitizen(2)

SpecMeetingAwards == Init /\ [][NextMeetingAwards]_vars

MeetingAwardPaths == {"award_row_button", "award_points_to_present", "meeting_award_form"}

\* the meeting_attendance rows of the ledger for citizen c and meeting m
MeetingAwardRows(rows, c, m) ==
    {i \in 1..Len(rows) : /\ rows[i].citizen_id = c
                          /\ rows[i].meeting_id = m
                          /\ rows[i].activity_type = "meeting_attendance"}

\* the citizens a call of an award path called award_points for
Attempted(call) == {call.attempted[i] : i \in 1..Len(call.attempted)}

----------------------------------------------------------------------------
(* The value of an award *)

\* the call appended one row for c with activity type a and the value points
\* to the ledger and returned its id
AppendedRow(c, a, points) ==
    LET n == Len(citizen_points)
    IN  /\ Len(citizen_points') = n + 1
        /\ SubSeq(citizen_points', 1, n) = citizen_points
        /\ citizen_points'[n + 1].citizen_id = c
        /\ citizen_points'[n + 1].activity_type = a
        /\ citizen_points'[n + 1].points = points
        /\ last'.ret = Some(n + 1)

\* C21: for each of the five seeded activity types (meeting_attendance,
\* subbotnik, community_work, volunteer_work, initiative), award_points
\* without custom_points to an active citizen without history succeeds and
\* appends a ledger row whose points are the seeded default of the type
\* (10, 15, 10, 12 and 20).
C21_SeededDefaults ==
    [][(/\ last'.op = "award_points"
        /\ last'.activity_type \in DOMAIN SeededActivityTypes
        /\ last'.custom = None
        /\ last'.citizen_id \in 1..Len(citizens)
        /\ citizens[last'.citizen_id].is_active = 1
        /\ CountPoints(citizen_points, last'.citizen_id) = 0)
       => AppendedRow(last'.citizen_id, last'.activity_type,
                      SeededActivityTypes[last'.activity_type])]_vars

\* C22: award_points with an explicit custom_points value p succeeds and
\* appends a ledger row with points = p for every integer p in
\* [-1000, 1000], p = 0 and negative p included, whenever the citizen is
\* active, the activity type is known and no regularity bonus applies.
C22_CustomPoints ==
    [][(/\ last'.op = "award_points"
        /\ last'.custom # None
        /\ last'.custom[1] \in -1000..1000
        /\ last'.activity_type \in KnownActivityTypes
        /\ last'.citizen_id \in 1..Len(citizens)
        /\ citizens[last'.citizen_id].is_active = 1
        /\ ~check_regular_activity(citizen_points, last'.citizen_id,
                                   last'.activity_type, today))
       => AppendedRow(last'.citizen_id, last'.activity_type, last'.custom[1])]_vars


----------------------------------------------------------------------------
(* The status of a meeting *)

\* C23: the status of a meeting only ever moves from PLANNED to COMPLETED or
\* from PLANNED to CANCELLED: complete_meeting, cancel_meeting and
\* change_status leave the status of a meeting that is already COMPLETED or
\* CANCELLED unchanged, so such a meeting never returns to PLANNED and never
\* switches between COMPLETED and CANCELLED.
C23_StatusFinal ==
    [][\A m \in DOMAIN meetings \cap DOMAIN meetings' :
          meetings[m].status # "PLANNED" => meetings'[m].status = meetings[m].status]_vars


----------------------------------------------------------------------------
(* Partial updates of a citizen *)

\* every value of the keyword arguments is valid taken by itself
EachFieldValid(kwargs) ==
    /\ "full_name" \in DOMAIN kwargs =>
          (StrippedLen(kwargs["full_name"]) >= 2 /\ StrippedLen(kwargs["full_name"]) <= 255)
    /\ "passport_data" \in DOMAIN kwargs => ValidPassport(kwargs["passport_data"])

\* C24: update_citizen called with any non-empty subset of the fields, each
\* value valid by itself (for example without full_name), returns True, sets
\* exactly those fields on that citizen and leaves the other fields of the
\* citizen and every other citizen unchanged.
C24_PartialUpdate ==
    [][(/\ last'.op = "update_citizen"
        /\ last'.citizen_id \in 1..Len(citizens)
        /\ DOMAIN last'.data # {}
        /\ EachFieldValid(last'.data))
       => /\ last'.ok
          /\ citizens' =
                [citizens EXCEPT ![last'.citizen_id].passport_data =
                    IF "passport_data" \in DOMAIN last'.data
                    THEN PassportUpper(last'.data["passport_data"]) ELSE @]]_vars


----------------------------------------------------------------------------
(* The rank of a citizen who is not in the rating *)

\* C25: get_citizen_rank returns None (no rank) for a citizen id that does
\* not exist or that belongs to an inactive citizen; it returns a positive
\* rank only for active citizens.
C25_RankOfAbsent ==
    last.op = "get_citizen_rank" =>
        IF last.citizen_id \in 1..Len(citizens) /\ citizens[last.citizen_id].is_active = 1
        THEN last.ret # None /\ last.ret[1] >= 1
        ELSE last.ret = None


----------------------------------------------------------------------------
(* Achievements *)

\* C26: get_citizen_achievements(c) returns exactly the labels whose
\* thresholds are met - "Aktivist" iff the sum of the ledger points of c is
\* >= 100, "Lider mahalli" iff it is >= 500, "Postoyannyy uchastnik" iff c has
\* >= 20 ledger rows - for every citizen, and for a citizen without ledger
\* rows it returns an empty list of achievements without raising.
C26_Achievements ==
    last.op = "get_citizen_achievements" =>
        LET c == last.citizen_id
        IN  /\ ~last.raised
            /\ "Aktivist" \in last.achievements <=> SumPoints(citizen_points, c) >= 100
            /\ "Lider mahalli" \in last.achievements <=> SumPoints(citizen_points, c) >= 500
            /\ "Postoyannyy uchastnik" \in last.achievements
                  <=> CountPoints(citizen_points, c) >= 20
            /\ CountPoints(citizen_points, c) = 0 => last.achievements = {}


----------------------------------------------------------------------------
(* Batches of rows *)

MaxBatch == 2            \* rows of a batch
BulkRows == 5            \* rows of citizens

BulkRowArgs ==
    {[k \in {"full_name"} |-> "valid"],
     [k \in {"full_name"} |-> "None"],
     [k \in {"passport_data"} |-> "AB1234570"],
     [k \in {"full_name", "passport_data"} |->
         IF k = "full_name" THEN "valid" ELSE "AB1234570"],
     [k \in {"full_name", "nickname"} |-> "valid"]}

BulkArgs == UNION {[1..n -> BulkRowArgs] : n \in 0..MaxBatch}

NextBulk ==
    \/ \E store \in StoreOutcomes, data_list \in BulkArgs :
          BulkInsert(store, data_list) /\ Len(citizens') <= BulkRows
    \/ Tick(1) /\ today < 1

SpecBulk == Init /\ [][NextBulk]_vars

\* the rows of the batch are the last rows of the table, row i holding the
\* value of data_list[i] for every column in columns(i), and the statement
\* stamped all of them alike
BatchPresent(data_list, columns(_)) ==
    LET n == Len(citizens)
    IN  /\ Len(citizens') = n + Len(data_list)
        /\ SubSeq(citizens', 1, n) = citizens
        /\ \A i \in 1..Len(data_list) :
              /\ citizens'[n + i].passport_data =
                    IF "passport_data" \in columns(i)
                    THEN data_list[i]["passport_data"] ELSE ""
              /\ last'.params[i]["created_at"] = last'.params[1]["created_at"]
              /\ last'.params[i]["updated_at"] = last'.params[1]["created_at"]

\* every row of the batch has the columns of the first row
SameColumns(data_list) ==
    \A i \in 1..Len(data_list) : DOMAIN data_list[1] \subseteq DOMAIN data_list[i]

----------------------------------------------------------------------------
(* Initialisation of the store: DatabaseManager() on every request *)

insert_unique_unchecked(rows, row, key) == Append(rows, row)

\* an INSERT into a table whose column key is UNIQUE: a row whose key is
\* already there raises IntegrityError, execute_query swallows it and the table
\* stays as it was
insert_unique(rows, row, key) ==
    IF \E i \in 1..Len(rows) : rows[i][key] = row[key]
    THEN rows
    ELSE Append(rows, row)

\* a test citizen of _insert_initial_data
SeededCitizen(i) ==
    [is_active |-> 1, total_points |-> 0, passport_data |-> SeedPassport[i]]

\* the database file before the first DatabaseManager is constructed:
\* CREATE TABLE IF NOT EXISTS makes every table, with no row
InitStore ==
    /\ citizens = <<>>
    /\ citizen_points = <<>>
    /\ meetings = <<>>
    /\ meeting_seq = 0
    /\ attendance = {}
    /\ today = 0
    /\ last = NoCall
    /\ calls = NoCalls
    /\ users = <<>>
    /\ activity_types = <<>>
    /\ session_state = NoSession
    /\ clock = 0
    /\ sms_campaigns = <<>>
    /\ sms_logs = <<>>

\* a request of session p constructs a DatabaseManager, whose __init__ runs
\* init_database; flag records whether the store held a user and an activity
\* type when the run began
InitDatabaseCall(p) ==
    /\ Free(p)
    /\ calls' = Start(p, [Idle EXCEPT !.pc = "count_users",
                                       !.op = "init_database",
                                       !.flag = Len(users) >= 1
                                                /\ Len(activity_types) >= 1])
    /\ UNCHANGED <<system, citizens, citizen_points, meetings, meeting_seq,
                   attendance, today, last>>

\* the next statement of _insert_initial_data in session p: SELECT COUNT(*)
\* FROM users, the INSERT of the administrator, SELECT COUNT(*) FROM
\* activity_types, the INSERT of each activity type, SELECT COUNT(*) FROM
\* citizens, the INSERT of each test citizen; each statement is a transaction
InitStatement(p) ==
    LET call == calls[p]
        goto(pc, count) == [calls EXCEPT ![p].pc = pc, ![p].count = count]
    IN  /\ call.op = "init_database"
        /\ ~Free(p)
        /\ CASE call.pc = "count_users" ->
                  /\ calls' = IF Len(users) = 0
                              THEN goto("insert_admin", 0)
                              ELSE goto("count_types", 0)
                  /\ UNCHANGED <<users, activity_types, citizens>>
             [] call.pc = "insert_admin" ->
                  /\ users' = insert_unique(users, DefaultAdmin, "username")
                  /\ calls' = goto("count_types", 0)
                  /\ UNCHANGED <<activity_types, citizens>>
             [] call.pc = "count_types" ->
                  /\ calls' = IF Len(activity_types) = 0
                              THEN goto("insert_type", 1)
                              ELSE goto("count_citizens", 0)
                  /\ UNCHANGED <<users, activity_types, citizens>>
             [] call.pc = "insert_type" ->
                  /\ activity_types' = insert_unique(activity_types,
                                          SeededActivityRows[call.count], "name")
                  /\ calls' = IF call.count < Len(SeededActivityRows)
                              THEN goto("insert_type", call.count + 1)
                              ELSE goto("count_citizens", 0)
                  /\ UNCHANGED <<users, citizens>>
             [] call.pc = "count_citizens" ->
                  /\ calls' = IF Len(citizens) = 0
                              THEN goto("insert_citizen", 1)
                              ELSE goto("returned", 0)
                  /\ UNCHANGED <<users, activity_types, citizens>>
             [] call.pc = "insert_citizen" ->
                  /\ citizens' = Append(citizens, SeededCitizen(call.count))
                  /\ calls' = IF call.count < SeedCitizens
                              THEN goto("insert_citizen", call.count + 1)
                              ELSE goto("returned", 0)
                  /\ UNCHANGED <<users, activity_types>>
        /\ UNCHANGED <<citizen_points, meetings, meeting_seq, attendance, today,
                       last, session_state, clock, sms_campaigns, sms_logs>>

\* AuthManager.create_user: SELECT 1 FROM users WHERE username = ?, then the
\* INSERT; is_active takes the column default 1
CreateUser(username, password, role) ==
    LET existing == \E i \in 1..Len(users) : users[i].username = username
        row == [username |-> username, password_hash |-> hash_password(password),
                role |-> role, is_active |-> 1]
        after == IF existing THEN users ELSE insert_unique(users, row, "username")
    IN  /\ users' = after
        /\ last' = [NoCall EXCEPT !.op = "create_user",
                                  !.params = <<username, password, role>>,
                                  !.ret = IF existing THEN None
                                          ELSE Some(Len(after))]
        /\ UNCHANGED <<citizens, citizen_points, meetings, meeting_seq, attendance,
                       today, calls, activity_types, session_state, clock,
                       sms_campaigns, sms_logs>>

\* PointsModel.create_activity_type: SELECT 1 FROM activity_types WHERE
\* name = ?, then the INSERT
CreateActivityType(name, points_value) ==
    LET existing == \E i \in 1..Len(activity_types) : activity_types[i].name = name
        row == [name |-> name, points_value |-> points_value]
        after == IF existing THEN activity_types
                 ELSE insert_unique(activity_types, row, "name")
    IN  /\ activity_types' = after
        /\ last' = [NoCall EXCEPT !.op = "create_activity_type",
                                  !.params = <<name, points_value>>,
                                  !.ret = IF existing THEN None
                                          ELSE Some(Len(after))]
        /\ UNCHANGED <<citizens, citizen_points, meetings, meeting_seq, attendance,
                       today, calls, users, session_state, clock, sms_campaigns,
                       sms_logs>>

\* create_user and create_activity_type are called with a name the seeding uses
UserArgs == {DEFAULT_ADMIN_LOGIN}
ActivityNameArgs == {"initiative"}

NextInit ==
    \/ \E p \in Sessions : InitDatabaseCall(p)
    \/ \E p \in Sessions : InitStatement(p)
    \/ \E username \in UserArgs : CreateUser(username, "secret", "operator")
    \/ \E name \in ActivityNameArgs : CreateActivityType(name, 5)

SpecInit == InitStore /\ [][NextInit]_vars

\* how many rows of a table carry the value in the column key
RowsWith(rows, key, value) ==
    Cardinality({i \in 1..Len(rows) : rows[i][key] = value})

\* C28: a run of init_database that begins on a store holding at least one
\* user and at least one activity type adds no row to users and none to
\* activity_types, however many runs there are and however they interleave; and
\* at every moment there is at most one default administrator account and at
\* most one row for each seeded activity-type name
C28_InitIdempotent ==
    [][/\ \A p \in Sessions :
             (calls[p].op = "init_database" /\ calls[p].flag /\ calls'[p] # calls[p])
                 => (users' = users /\ activity_types' = activity_types)
       /\ RowsWith(users', "username", DEFAULT_ADMIN_LOGIN) <= 1
       /\ \A i \in 1..Len(SeededActivityNames) :
             RowsWith(activity_types', "name", SeededActivityNames[i]) <= 1]_vars

\* a run of init_database that began on a seeded store has returned, while the
\* store holds the administrator and all five activity types
C28_Witness ==
    \E p \in Sessions :
        /\ calls[p].op = "init_database"
        /\ calls[p].flag
        /\ calls[p].pc = "returned"
        /\ RowsWith(users, "username", DEFAULT_ADMIN_LOGIN) = 1
        /\ Len(activity_types) >= Len(SeededActivityNames)


----------------------------------------------------------------------------
(* Authentication of the browser session *)

SESSION_MAX_MINUTES == 30    \* timedelta(minutes=30) of check_session_timeout
ClockStep == 15              \* minutes by which the modelled clock moves
MaxClock == 45               \* the last minute of the modelled clock

\* time passes
TickClock ==
    /\ clock' = clock + ClockStep
    /\ UNCHANGED <<citizens, citizen_points, meetings, meeting_seq, attendance,
                   today, last, calls, users, activity_types, session_state,
                   sms_campaigns, sms_logs>>

\* logout(): the three keys are reset (every other key is deleted)
logout(ss) == [ss EXCEPT !.authenticated = FALSE, !.user = None, !.login_time = None]

\* check_session_timeout(): False when nobody is logged in; when the login is
\* older than 30 minutes the session is logged out and the answer is False
check_session_timeout(ss, now) ==
    IF ~ss.authenticated \/ ss.login_time = None
    THEN [ret |-> FALSE, session |-> ss]
    ELSE IF now - ss.login_time[1] > SESSION_MAX_MINUTES
         THEN [ret |-> FALSE, session |-> logout(ss)]
         ELSE [ret |-> TRUE, session |-> ss]

\* check_authentication(): the timeout check comes first and its False ends the
\* call; only after it has answered True is authenticated looked at, and the
\* login form shown when it is False
check_authentication(ss, now) ==
    LET timeout == check_session_timeout(ss, now)
    IN  IF ~timeout.ret
        THEN [ret |-> FALSE, session |-> [timeout.session EXCEPT !.screen = "blank"]]
        ELSE IF ~timeout.session.authenticated
             THEN [ret |-> FALSE,
                   session |-> [timeout.session EXCEPT !.screen = "login"]]
             ELSE [ret |-> TRUE,
                   session |-> [timeout.session EXCEPT !.screen = "main"]]

\* a run of main(): the application and the system are in order, and the page
\* content is rendered when check_authentication answers True
Main ==
    LET checked == check_authentication(session_state, clock)
    IN  /\ session_state' = checked.session
        /\ last' = [NoCall EXCEPT !.op = "check_authentication",
                                  !.flag = session_state.authenticated,
                                  !.ok = checked.ret]
        /\ UNCHANGED <<citizens, citizen_points, meetings, meeting_seq, attendance,
                       today, calls, users, activity_types, clock, sms_campaigns,
                       sms_logs>>

\* AuthManager.authenticate_user: the active user of that name, if the hash of
\* the password is the stored one
authenticate_user(us, username, password) ==
    LET found == {i \in 1..Len(us) : us[i].username = username /\ us[i].is_active = 1}
    IN  IF found = {} THEN None
        ELSE LET user == us[CHOOSE i \in found : TRUE]
             IN  IF hash_password(password) = user.password_hash
                 THEN Some(user.username)
                 ELSE None

\* login(username, password), which the login form calls when it is submitted
Login(username, password) ==
    LET user_data == authenticate_user(users, username, password)
    IN  /\ session_state' = IF user_data # None
                            THEN [session_state EXCEPT !.authenticated = TRUE,
                                                       !.user = user_data,
                                                       !.login_time = Some(clock)]
                            ELSE session_state
        /\ last' = [NoCall EXCEPT !.op = "login",
                                  !.params = <<username, password>>,
                                  !.ok = user_data # None]
        /\ UNCHANGED <<citizens, citizen_points, meetings, meeting_seq, attendance,
                       today, calls, users, activity_types, clock, sms_campaigns,
                       sms_logs>>

\* the button of show_user_info on the rendered page: logout(), then
\* st.rerun() runs main again
Logout ==
    LET checked == check_authentication(logout(session_state), clock)
    IN  /\ session_state.screen = "main"
        /\ session_state' = checked.session
        /\ last' = [NoCall EXCEPT !.op = "logout", !.ok = checked.ret]
        /\ UNCHANGED <<citizens, citizen_points, meetings, meeting_seq, attendance,
                       today, calls, users, activity_types, clock, sms_campaigns,
                       sms_logs>>

LoginNames == {DEFAULT_ADMIN_LOGIN, "operator1", "nobody"}
LoginPasswords == {DEFAULT_ADMIN_PASSWORD, "secret"}

NextAuth ==
    \/ Main
    \/ \E username \in LoginNames, password \in LoginPasswords :
          Login(username, password)
    \/ Logout
    \/ CreateUser("operator1", "secret", "operator")
    \/ TickClock /\ clock' <= MaxClock

SpecAuth == Init /\ [][NextAuth]_vars

\* the credentials are those of an active user
ValidCredentials(username, password) ==
    \E i \in 1..Len(users) :
        /\ users[i].username = username
        /\ users[i].is_active = 1
        /\ users[i].password_hash = hash_password(password)

\* C29: when nobody is logged in, check_authentication presents the login form
\* and answers False; a login with the credentials of an active user makes the
\* session authenticated; and the page content is on the screen only in an
\* authenticated session
C29_LoginGate ==
    /\ (last.op = "check_authentication" /\ ~last.flag)
           => (session_state.screen = "login" /\ ~last.ok)
    /\ (last.op = "login" /\ ValidCredentials(last.params[1], last.params[2]))
           => session_state.authenticated
    /\ session_state.screen = "main" => session_state.authenticated


----------------------------------------------------------------------------
(* SMS campaigns *)

MaxCampaigns == 1        \* rows of sms_campaigns in a restored file
MaxRecipients == 2       \* recipients of one send_campaign call
MaxSmsLogs == 2          \* rows of sms_logs

\* phone values: a well-formed +998 number, a malformed one, the empty string
\* (also what recipient.get('phone', '') gives for a missing key), and None
PhoneArgs == {Some("+998901234567"), Some("12"), Some(""), None}

\* whether a phone is +998 followed by nine digits
WellFormedPhone(phone) == phone = Some("+998901234567")

\* SMSModel._validate_phone(phone): the body assigns phone_pattern and ends;
\* there is no return statement, so the call yields None, which the caller's
\* "phone and self._validate_phone(phone)" takes as false
sms_validate_phone(phone) == FALSE

\* a row of sms_campaigns as the file of a backup holds it
CampaignRow == [sent_count |-> 0, failed_count |-> 0, sent_at |-> None]

\* DatabaseManager.restore_database(backup_path): the database file is replaced
\* by the backup file, here a file of this application with n campaigns and
\* otherwise as init_database leaves it
RestoreDatabase(n) ==
    /\ citizens' = [i \in 1..SeedCitizens |-> SeededCitizen(i)]
    /\ citizen_points' = <<>>
    /\ meetings' = <<>>
    /\ meeting_seq' = 0
    /\ attendance' = {}
    /\ users' = SeededUsers
    /\ activity_types' = SeededActivityRows
    /\ sms_campaigns' = [i \in 1..n |-> CampaignRow]
    /\ sms_logs' = <<>>
    /\ last' = [NoCall EXCEPT !.op = "restore_database", !.ok = TRUE]
    /\ UNCHANGED <<today, calls, session_state, clock>>

\* SMSModel.create_campaign(title, message_text) with data that validates:
\* BaseModel.create adds created_at and updated_at to the INSERT
CreateCampaign(store) ==
    LET columns == {"title", "message_text", "campaign_type", "sent_count",
                    "delivered_count", "failed_count", "scheduled_at", "created_by"}
        valid == StatementPrepares("sms_campaigns", CreateColumns(columns))
        r == execute_query(store, valid, sms_campaigns,
                           Append(sms_campaigns, CampaignRow))
    IN  /\ sms_campaigns' = r.tables
        /\ last' = [NoCall EXCEPT !.op = "create_campaign",
                                  !.failed = (store # "ok" \/ ~valid),
                                  !.ret = IF r.done THEN Some(Len(r.tables))
                                          ELSE None]
        /\ UNCHANGED <<citizens, citizen_points, meetings, meeting_seq, attendance,
                       today, calls, users, activity_types, session_state, clock,
                       sms_logs>>

\* SMSModel._send_single_sms: the INSERT of one sms_logs row with status SENT;
\* the statement fails when citizen_id names no citizen (foreign key), and
\* then nothing is written and the answer is False
send_single_sms(logs, cits, campaign_id, recipient) ==
    LET valid == /\ StatementPrepares("sms_logs", {"campaign_id", "citizen_id",
                        "phone", "message_text", "status", "sent_at"})
                 /\ (recipient.citizen_id = NULL
                     \/ recipient.citizen_id \in 1..Len(cits))
        row == [campaign_id |-> campaign_id, citizen_id |-> recipient.citizen_id,
                phone |-> recipient.phone, status |-> "SENT"]
        r == execute_query("ok", valid, logs, Append(logs, row))
    IN  [success |-> r.done, logs |-> r.tables]

\* the loop of send_campaign over the valid recipients, from the i-th on
RECURSIVE send_each(_, _, _, _, _, _, _)
send_each(logs, cits, campaign_id, valid_recipients, i, sent_count, failed_count) ==
    IF i > Len(valid_recipients)
    THEN [logs |-> logs, sent_count |-> sent_count, failed_count |-> failed_count]
    ELSE LET one == send_single_sms(logs, cits, campaign_id, valid_recipients[i])
         IN  send_each(one.logs, cits, campaign_id, valid_recipients, i + 1,
                       IF one.success THEN sent_count + 1 ELSE sent_count,
                       IF one.success THEN failed_count ELSE failed_count + 1)

\* SMSModel.send_campaign(campaign_id, recipients)
send_campaign(campaigns, logs, cits, now, campaign_id, recipients) ==
    LET same == [campaigns |-> campaigns, logs |-> logs]
        nothing == [success |-> FALSE, sent_count |-> 0, failed_count |-> 0]
        valid_recipients ==
            SelectSeq(recipients,
                      LAMBDA r : r.phone # Some("") /\ sms_validate_phone(r.phone))
        sent == send_each(logs, cits, campaign_id, valid_recipients, 1, 0, 0)
        \* self.update(campaign_id, {sent_count, failed_count, sent_at})
        prepared == StatementPrepares("sms_campaigns",
                        UpdateColumns({"sent_count", "failed_count", "sent_at"}))
        updated == execute_query("ok", prepared, campaigns,
                       [campaigns EXCEPT ![campaign_id] =
                           [sent_count |-> sent.sent_count,
                            failed_count |-> sent.failed_count,
                            sent_at |-> Some(now)]])
    IN  IF campaign_id \notin 1..Len(campaigns)
        THEN same @@ [raised |-> FALSE, result |-> nothing]
        ELSE IF \E i \in 1..Len(recipients) : recipients[i].phone = None
             \* None.strip() raises AttributeError before anything is written
             THEN same @@ [raised |-> TRUE, result |-> nothing]
        ELSE IF valid_recipients = <<>>
             THEN same @@ [raised |-> FALSE, result |-> nothing]
        ELSE [campaigns |-> updated.tables, logs |-> sent.logs, raised |-> FALSE,
              result |-> [success |-> TRUE, sent_count |-> sent.sent_count,
                          failed_count |-> sent.failed_count]]

SendCampaign(campaign_id, recipients) ==
    LET r == send_campaign(sms_campaigns, sms_logs, citizens, clock,
                           campaign_id, recipients)
    IN  /\ sms_campaigns' = r.campaigns
        /\ sms_logs' = r.logs
        /\ last' = [NoCall EXCEPT !.op = "send_campaign",
                                  !.params = <<campaign_id, recipients>>,
                                  !.raised = r.raised,
                                  !.ok = r.result.success,
                                  !.data = r.result]
        /\ UNCHANGED <<citizens, citizen_points, meetings, meeting_seq, attendance,
                       today, calls, users, activity_types, session_state, clock>>

RecipientArgs ==
    UNION {[1..n -> [citizen_id : {1}, phone : PhoneArgs]] : n \in 0..MaxRecipients}

NextSms ==
    \/ \E n \in 0..MaxCampaigns : RestoreDatabase(n)
    \/ \E store \in StoreOutcomes : CreateCampaign(store)
    \/ \E campaign_id \in 1..(MaxCampaigns + 1), recipients \in RecipientArgs :
          SendCampaign(campaign_id, recipients) /\ Len(sms_logs') <= MaxSmsLogs
    \/ TickClock /\ clock' <= MaxClock

SpecSms == Init /\ [][NextSms]_vars

\* the recipients with a well-formed +998 phone, in the order given
WellFormedRecipients(recipients) ==
    SelectSeq(recipients, LAMBDA r : WellFormedPhone(r.phone))

\* the sms_logs rows of a delivery to each of the recipients
SentRows(campaign_id, recipients) ==
    [i \in 1..Len(recipients) |->
        [campaign_id |-> campaign_id, citizen_id |-> recipients[i].citizen_id,
         phone |-> recipients[i].phone, status |-> "SENT"]]

\* C30: send_campaign on an existing campaign with at least one recipient
\* whose phone is a well-formed +998 number appends to sms_logs exactly one
\* SENT row for each such recipient and none for the others, answers success
\* with sent_count + failed_count equal to the number of well-formed
\* recipients, and stores both counters on the campaign; for a campaign id
\* that does not exist it changes neither table and answers failure
C30_SendCampaign ==
    [][(last'.op = "send_campaign" /\ <<last, sms_logs, sms_campaigns>>' #
                                       <<last, sms_logs, sms_campaigns>>) =>
          LET campaign_id == last'.params[1]
              good == WellFormedRecipients(last'.params[2])
          IN  IF campaign_id \in 1..Len(sms_campaigns)
              THEN good # <<>> =>
                      /\ sms_logs' = sms_logs \o SentRows(campaign_id, good)
                      /\ last'.ok
                      /\ last'.data.sent_count + last'.data.failed_count = Len(good)
                      /\ sms_campaigns'[campaign_id].sent_count = last'.data.sent_count
                      /\ sms_campaigns'[campaign_id].failed_count
                            = last'.data.failed_count
              ELSE /\ sms_logs' = sms_logs
                   /\ sms_campaigns' = sms_campaigns
                   /\ ~last'.ok]_vars

============================================================================
